---- MODULE Spec2Model ----
(***************************************************************************)
(* matheval-core: the compile-and-evaluate pipeline.                       *)
(*   lexer.rs -> parser.rs -> compiler.rs (optimize_expr, compile_expr)    *)
(*   -> bytecode.rs (Program) -> vm.rs (Context, VM)                       *)
(* A source is a sequence of characters, a character a one-letter string.  *)
(***************************************************************************)
EXTENDS Integers, Sequences, FiniteSets, TLC

(***************************************************************************)
(* Bounds of the model.                                                    *)
(***************************************************************************)
\* longest source, in lexemes, that Compile draws from the alphabet
MaxSrcLen == 3
\* longest context the Context operations build
MaxCtxLen == 2
\* most vectors in the input of eval_batch
MaxBatchLen == 2
MaxEvals == 2
MaxLexLen == 3
MaxItems == 4
MaxProgLen == 3
MaxRuns == 2

(***************************************************************************)
(* f64.  A value is a pair <<n, d>>: the rational n/d in lowest terms with *)
(* d >= 1, or one of the four special values below.  Arithmetic follows    *)
(* IEEE-754 on these values, without rounding: a quotient such as 1/12     *)
(* stands for the f64 nearest to it.  There is one NaN (sign and payload   *)
(* are not modelled).  Inexact stands for any finite result the model does *)
(* not track (sin(1), 2^0.5, a power beyond 2^30): it absorbs arithmetic   *)
(* and compares equal to nothing.                                          *)
(***************************************************************************)
NaN == <<0, 0>>
PInf == <<1, 0>>
NInf == <<-1, 0>>
NegZero == <<0, -1>>
Inexact == <<0, -2>>
Zero == <<0, 1>>
One == <<1, 1>>
Two == <<2, 1>>
Half == <<1, 2>>

Abs(n) == IF n < 0 THEN -n ELSE n

\* TRUE, after x has been evaluated: the loops that are unrolled by halves
\* test it so that the first half is computed before the second is entered
Evaluated(x) == x = x

RECURSIVE Gcd(_, _)
Gcd(a, b) == IF b = 0 THEN a ELSE Gcd(b, a % b)

\* the value n/d, d # 0, in lowest terms; a zero quotient is +0.0
Fin(n, d) ==
    LET s == IF d < 0 THEN -1 ELSE 1
        g == Gcd(Abs(n), Abs(d))
    IN  <<(s * n) \div g, (s * d) \div g>>

IsNaN(v) == v = NaN
IsInf(v) == v[2] = 0 /\ v[1] # 0
IsZero(v) == v = Zero \/ v = NegZero
IsRat(v) == v[2] >= 1
SignNeg(v) == v[1] < 0 \/ v = NegZero
\* the zero or infinity of the given sign
SZero(neg) == IF neg THEN NegZero ELSE Zero
SInf(neg) == IF neg THEN NInf ELSE PInf
IsInt(v) == v[2] = 1
IsOddInt(v) == v[2] = 1 /\ v[1] % 2 = 1

\* a == b of f64: NaN equals nothing, -0.0 equals 0.0
FEq(a, b) ==
    /\ ~IsNaN(a) /\ ~IsNaN(b)
    /\ a # Inexact /\ b # Inexact
    /\ (a = b \/ (IsZero(a) /\ IsZero(b)))

\* a < b of f64 (false when either is NaN)
FLt(a, b) ==
    /\ ~IsNaN(a) /\ ~IsNaN(b) /\ a # Inexact /\ b # Inexact
    /\ ~FEq(a, b)
    /\ IF a = NInf \/ b = PInf THEN TRUE
       ELSE IF a = PInf \/ b = NInf THEN FALSE
       ELSE LET an == IF IsZero(a) THEN 0 ELSE a[1]
                ad == IF IsZero(a) THEN 1 ELSE a[2]
                bn == IF IsZero(b) THEN 0 ELSE b[1]
                bd == IF IsZero(b) THEN 1 ELSE b[2]
            IN  an * bd < bn * ad

FNeg(a) ==
    CASE a = NaN -> NaN
      [] a = Inexact -> Inexact
      [] a = Zero -> NegZero
      [] a = NegZero -> Zero
      [] OTHER -> <<-a[1], a[2]>>

FAdd(a, b) ==
    CASE IsNaN(a) \/ IsNaN(b) -> NaN
      [] IsInf(a) /\ IsInf(b) -> IF a = b THEN a ELSE NaN
      [] IsInf(a) -> a
      [] IsInf(b) -> b
      [] a = Inexact \/ b = Inexact -> Inexact
      [] IsZero(a) /\ IsZero(b) -> IF a = NegZero /\ b = NegZero THEN NegZero ELSE Zero
      [] IsZero(a) -> b
      [] IsZero(b) -> a
      [] OTHER -> Fin(a[1] * b[2] + b[1] * a[2], a[2] * b[2])

FSub(a, b) == FAdd(a, FNeg(b))

FMul(a, b) ==
    LET neg == SignNeg(a) # SignNeg(b)
    IN  CASE IsNaN(a) \/ IsNaN(b) -> NaN
          [] (IsInf(a) /\ IsZero(b)) \/ (IsZero(a) /\ IsInf(b)) -> NaN
          [] IsInf(a) \/ IsInf(b) -> SInf(neg)
          [] IsZero(a) \/ IsZero(b) -> SZero(neg)
          [] a = Inexact \/ b = Inexact -> Inexact
          [] OTHER -> Fin(a[1] * b[1], a[2] * b[2])

FDiv(a, b) ==
    LET neg == SignNeg(a) # SignNeg(b)
    IN  CASE IsNaN(a) \/ IsNaN(b) -> NaN
          [] (IsInf(a) /\ IsInf(b)) \/ (IsZero(a) /\ IsZero(b)) -> NaN
          [] IsInf(a) \/ IsZero(b) -> SInf(neg)
          [] IsInf(b) \/ IsZero(a) -> SZero(neg)
          [] a = Inexact \/ b = Inexact -> Inexact
          [] OTHER -> Fin(a[1] * b[2], a[2] * b[1])

RECURSIVE IPow(_, _)
IPow(b, e) == IF e = 0 THEN 1 ELSE b * IPow(b, e - 1)

\* |b|^e is at most limit
RECURSIVE PowFits(_, _, _)
PowFits(b, e, limit) ==
    \/ e = 0
    \/ Abs(b) <= 1
    \/ limit \div Abs(b) >= 1 /\ PowFits(b, e - 1, limit \div Abs(b))

\* the exact square root of the natural n, or -1 when n is no square
ISqrt(n) ==
    IF \E r \in 0..n : r * r = n THEN CHOOSE r \in 0..n : r * r = n ELSE -1

\* a.powf(b)
FPow(a, b) ==
    CASE IsZero(b) -> One
      [] a = One -> One
      [] IsNaN(a) \/ IsNaN(b) -> NaN
      [] a = Inexact \/ b = Inexact -> Inexact
      [] IsInf(b) ->
            IF a = <<-1, 1>> THEN One
            ELSE IF IsInf(a) \/ (IsRat(a) /\ Abs(a[1]) > a[2])
                 THEN (IF b = PInf THEN PInf ELSE Zero)
                 ELSE (IF b = PInf THEN Zero ELSE PInf)
      [] IsZero(a) ->
            IF SignNeg(b) THEN SInf(SignNeg(a) /\ IsOddInt(b))
            ELSE SZero(SignNeg(a) /\ IsOddInt(b))
      [] IsInf(a) ->
            IF SignNeg(b) THEN SZero(a = NInf /\ IsOddInt(b))
            ELSE SInf(a = NInf /\ IsOddInt(b))
      [] IsInt(b) ->
            IF ~PowFits(a[1], Abs(b[1]), 1073741824) \/ ~PowFits(a[2], Abs(b[1]), 1073741824)
            THEN Inexact
            ELSE IF b[1] > 0 THEN Fin(IPow(a[1], b[1]), IPow(a[2], b[1]))
            ELSE Fin(IPow(a[2], -b[1]), IPow(a[1], -b[1]))
      [] SignNeg(a) -> NaN
      [] OTHER ->
            IF b = Half /\ ISqrt(a[1]) >= 0 /\ ISqrt(a[2]) >= 0
            THEN Fin(ISqrt(a[1]), ISqrt(a[2]))
            ELSE Inexact

\* f64::max / f64::min: the other operand when one is NaN
FMax(a, b) == IF IsNaN(a) THEN b ELSE IF IsNaN(b) THEN a ELSE IF FLt(a, b) THEN b ELSE a
FMin(a, b) == IF IsNaN(a) THEN b ELSE IF IsNaN(b) THEN a ELSE IF FLt(b, a) THEN b ELSE a

FAbs(a) == IF a = NaN \/ a = Inexact THEN a ELSE IF SignNeg(a) THEN FNeg(a) ELSE a

\* largest integer <= n/d for d >= 1
IFloor(n, d) == IF n >= 0 THEN n \div d ELSE -((-n + d - 1) \div d)

FFloor(a) ==
    IF ~IsRat(a) THEN a
    ELSE LET f == IFloor(a[1], a[2]) IN IF f = 0 /\ a[1] < 0 THEN NegZero ELSE <<f, 1>>

FCeil(a) == FNeg(FFloor(FNeg(a)))

\* f64::round: to nearest, halves away from zero
FRound(a) ==
    IF ~IsRat(a) THEN a
    ELSE LET m == IFloor(2 * Abs(a[1]) + a[2], 2 * a[2])
         IN  IF a[1] < 0 THEN (IF m = 0 THEN NegZero ELSE <<-m, 1>>) ELSE <<m, 1>>

FSqrt(a) ==
    CASE a = NaN \/ a = Inexact \/ IsZero(a) \/ a = PInf -> a
      [] SignNeg(a) -> NaN
      [] OTHER -> FPow(a, Half)

\* the transcendental functions, exact at their special points
FSin(a) == IF IsNaN(a) \/ IsInf(a) THEN NaN ELSE IF IsZero(a) THEN a ELSE Inexact
FCos(a) == IF IsNaN(a) \/ IsInf(a) THEN NaN ELSE IF IsZero(a) THEN One ELSE Inexact
FTan(a) == IF IsNaN(a) \/ IsInf(a) THEN NaN ELSE IF IsZero(a) THEN a ELSE Inexact
FExp(a) ==
    CASE IsNaN(a) -> NaN
      [] a = PInf -> PInf
      [] a = NInf -> Zero
      [] IsZero(a) -> One
      [] OTHER -> Inexact
FLn(a) ==
    CASE IsNaN(a) -> NaN
      [] IsZero(a) -> NInf
      [] a = Inexact -> Inexact
      [] SignNeg(a) -> NaN
      [] a = PInf -> PInf
      [] a = One -> Zero
      [] OTHER -> Inexact
FLog10(a) == IF a = <<10, 1>> THEN One ELSE FLn(a)

(***************************************************************************)
(* lexer.rs.  A Lexer is the input it has not consumed yet (its Peekable  *)
(* of chars); a token is a record [t, v, name].                            *)
(***************************************************************************)
DigitChars == <<"0", "1", "2", "3", "4", "5", "6", "7", "8", "9">>
Digits == {DigitChars[i] : i \in 1..10}
DigitVal(c) == (CHOOSE i \in 1..10 : DigitChars[i] = c) - 1
AsciiLetters ==
    {"a", "b", "c", "d", "e", "f", "g", "h", "i", "j", "k", "l", "m",
     "n", "o", "p", "q", "r", "s", "t", "u", "v", "w", "x", "y", "z",
     "A", "B", "C", "D", "E", "F", "G", "H", "I", "J", "K", "L", "M",
     "N", "O", "P", "Q", "R", "S", "T", "U", "V", "W", "X", "Y", "Z"}
\* characters outside ASCII for which char::is_alphanumeric is true, written
\* by code point: e-acute, Greek lambda, Arabic-Indic digit three
OtherAlphanumeric == {"U+00E9", "U+03BB", "U+0663"}
\* char::is_whitespace: the ASCII blanks and, of Unicode, the no-break space
Whitespace == {" ", "\t", "\n", "U+00A0"}

Tok(t) == [t |-> t, v |-> Zero, name |-> <<>>]
TokNumber(v) == [t |-> "Number", v |-> v, name |-> <<>>]
TokIdentifier(name) == [t |-> "Identifier", v |-> Zero, name |-> name]

LexOk(tok, rest) == [ok |-> TRUE, tok |-> tok, rest |-> rest, err |-> ""]
LexErr(msg, rest) == [ok |-> FALSE, tok |-> Tok("EOF"), rest |-> rest, err |-> msg]

RECURSIVE skip_whitespace(_)
skip_whitespace(input) ==
    IF input # <<>> /\ Head(input) \in Whitespace
    THEN skip_whitespace(Tail(input))
    ELSE input

\* str::parse::<f64> on a string of digits with at most one '.': the digits
\* before the point as an integer, the digits after it as a decimal fraction;
\* a string without a digit is rejected
RECURSIVE DigitsValue(_, _)
DigitsValue(str, acc) ==
    IF str = <<>> THEN acc
    ELSE DigitsValue(Tail(str), 10 * acc + DigitVal(Head(str)))

ParseF64(str) ==
    LET dots == {i \in 1..Len(str) : str[i] = "."}
        dot == IF dots = {} THEN Len(str) + 1 ELSE CHOOSE i \in dots : TRUE
        ip == SubSeq(str, 1, dot - 1)
        fp == SubSeq(str, dot + 1, Len(str))
    IN  IF Len(ip) + Len(fp) = 0 THEN [ok |-> FALSE, v |-> Zero]
        ELSE [ok |-> TRUE,
              v |-> Fin(DigitsValue(ip, 0) * IPow(10, Len(fp)) + DigitsValue(fp, 0),
                        IPow(10, Len(fp)))]

RECURSIVE read_number_loop(_, _, _)
read_number_loop(input, number_str, has_decimal) ==
    IF input # <<>> /\ Head(input) \in Digits
    THEN read_number_loop(Tail(input), Append(number_str, Head(input)), has_decimal)
    ELSE IF input # <<>> /\ Head(input) = "."
    THEN IF has_decimal
         THEN LexErr("Invalid number: multiple decimal points", input)
         ELSE read_number_loop(Tail(input), Append(number_str, "."), TRUE)
    ELSE LET r == ParseF64(number_str)
         IN  IF r.ok THEN LexOk(TokNumber(r.v), input)
             ELSE LexErr("Invalid number format", input)

read_number(input) == read_number_loop(input, <<>>, FALSE)

RECURSIVE read_identifier_loop(_, _)
read_identifier_loop(input, ident_str) ==
    IF input # <<>> /\ (Head(input) \in AsciiLetters \cup Digits \cup OtherAlphanumeric
                        \/ Head(input) = "_")
    THEN read_identifier_loop(Tail(input), Append(ident_str, Head(input)))
    ELSE LexOk(TokIdentifier(ident_str), input)

read_identifier(input) == read_identifier_loop(input, <<>>)

next_token(lexer) ==
    LET input == skip_whitespace(lexer)
    IN  IF input = <<>> THEN LexOk(Tok("EOF"), input)
        ELSE LET c == Head(input)
             IN  CASE c = "+" -> LexOk(Tok("Plus"), Tail(input))
                   [] c = "-" -> LexOk(Tok("Minus"), Tail(input))
                   [] c = "*" -> LexOk(Tok("Star"), Tail(input))
                   [] c = "/" -> LexOk(Tok("Slash"), Tail(input))
                   [] c = "^" -> LexOk(Tok("Caret"), Tail(input))
                   [] c = "(" -> LexOk(Tok("LParen"), Tail(input))
                   [] c = ")" -> LexOk(Tok("RParen"), Tail(input))
                   [] c = "," -> LexOk(Tok("Comma"), Tail(input))
                   [] c \in Digits \/ c = "." -> read_number(input)
                   [] c \in AsciiLetters \/ c = "_" -> read_identifier(input)
                   [] OTHER -> LexErr("Unexpected character", input)

(***************************************************************************)
(* ast.rs: Expr.                                                           *)
(***************************************************************************)
Number(v) == [k |-> "Number", v |-> v]
Variable(name) == [k |-> "Variable", name |-> name]
Binary(op, left, right) == [k |-> "Binary", op |-> op, left |-> left, right |-> right]
Unary(op, expr) == [k |-> "Unary", op |-> op, expr |-> expr]
Call(func, args) == [k |-> "Call", func |-> func, args |-> args]

(***************************************************************************)
(* parser.rs.  A Parser is [lexer, current_token]; every method returns    *)
(* its Result together with the parser it leaves behind.                   *)
(***************************************************************************)
POk(expr, p) == [ok |-> TRUE, expr |-> expr, p |-> p, err |-> ""]
PErr(msg) == [ok |-> FALSE, err |-> msg]

Parser_new(lexer) ==
    LET r == next_token(lexer)
    IN  IF r.ok THEN [ok |-> TRUE, p |-> [lexer |-> r.rest, current_token |-> r.tok], err |-> ""]
        ELSE PErr(r.err)

advance(p) ==
    LET r == next_token(p.lexer)
    IN  IF r.ok THEN [ok |-> TRUE, p |-> [lexer |-> r.rest, current_token |-> r.tok], err |-> ""]
        ELSE PErr(r.err)

\* bp_infix with * and / given the binding powers of + and -
bp_infix_flat(token) ==
    CASE token.t \in {"Plus", "Minus", "Star", "Slash"} -> <<10, 11>>
      [] token.t = "Caret" -> <<30, 29>>
      [] OTHER -> <<0, 0>>

\* bp_infix with the right binding power of ^ above its left one
bp_infix_caret_left(token) ==
    CASE token.t \in {"Plus", "Minus"} -> <<10, 11>>
      [] token.t \in {"Star", "Slash"} -> <<20, 21>>
      [] token.t = "Caret" -> <<30, 31>>
      [] OTHER -> <<0, 0>>

bp_infix(token) ==
    CASE token.t \in {"Plus", "Minus"} -> <<10, 11>>
      [] token.t \in {"Star", "Slash"} -> <<20, 21>>
      [] token.t = "Caret" -> <<30, 29>>
      [] OTHER -> <<0, 0>>

bp_prefix(token) == IF token.t = "Minus" THEN 99 ELSE 0

\* Each method is written as a chain of operators, one per call it makes:
\* the operator after a call takes that call's result as a parameter.
RECURSIVE expression(_, _), expression_left(_, _), expression_loop(_, _, _),
          expression_advanced(_, _, _, _), expression_led(_, _),
          nud(_), nud_token(_, _), nud_call(_, _), nud_call_args(_, _),
          nud_neg(_), nud_paren(_),
          nud_args_step(_), nud_args_parsed(_, _), nud_args_loop(_, _),
          nud_args_second(_, _), nud_args(_), led(_, _, _, _)

\* let mut left = self.nud()?; then the loop
expression(p, min_bp) == expression_left(nud(p), min_bp)

expression_left(l, min_bp) ==
    IF ~l.ok THEN l ELSE expression_loop(l.expr, l.p, min_bp)

\* the loop of expression, entered with `left` parsed
expression_loop(left, p, min_bp) ==
    IF p.current_token.t \in {"EOF", "RParen", "Comma"} THEN POk(left, p)
    ELSE IF bp_infix(p.current_token)[1] < min_bp THEN POk(left, p)
    ELSE expression_advanced(left, p.current_token, advance(p), min_bp)

\* after self.advance()?: left = self.led(left, token, r_bp)?
expression_advanced(left, token, a, min_bp) ==
    IF ~a.ok THEN PErr(a.err)
    ELSE expression_led(led(left, token, bp_infix(token)[2], a.p), min_bp)

expression_led(r, min_bp) ==
    IF ~r.ok THEN r ELSE expression_loop(r.expr, r.p, min_bp)

\* The argument loop of nud's Identifier arm.  Its state is [ok, more, args,
\* p, err]: `more` is false once the loop has left by break or by `?`.
ArgsState(ok, more, args, p, err) ==
    [ok |-> ok, more |-> more, args |-> args, p |-> p, err |-> err]

\* after args.push(self.expression(0)?): the test for Comma
nud_args_comma(st, r, a) ==
    IF ~a.ok THEN ArgsState(FALSE, FALSE, st.args, st.p, a.err)
    ELSE ArgsState(TRUE, TRUE, Append(st.args, r.expr), a.p, "")

nud_args_parsed(st, r) ==
    IF ~r.ok THEN ArgsState(FALSE, FALSE, st.args, st.p, r.err)
    ELSE IF r.p.current_token.t = "Comma" THEN nud_args_comma(st, r, advance(r.p))
    ELSE ArgsState(TRUE, FALSE, Append(st.args, r.expr), r.p, "")

\* one pass through the loop body
nud_args_step(st) ==
    IF ~st.more THEN st ELSE nud_args_parsed(st, expression(st.p, 0))

\* n passes, split in halves so that a long argument list does not nest the
\* evaluation n deep; a pass after the loop has left changes nothing
nud_args_loop(st, n) ==
    IF n = 0 \/ ~st.more THEN st
    ELSE IF n = 1 THEN nud_args_step(st)
    ELSE nud_args_second(nud_args_loop(st, n \div 2), n - (n \div 2))

nud_args_second(half, n) ==
    IF ~half.more THEN half ELSE nud_args_loop(half, n)

\* the whole loop: every pass consumes a token, so it makes at most
\* Len(p.lexer) + 1 passes
nud_args(p) == nud_args_loop(ArgsState(TRUE, TRUE, <<>>, p, ""), Len(p.lexer) + 1)

\* the Identifier arm after the arguments: expect RParen, advance
nud_call_close(name, args, a3) ==
    IF ~a3.ok THEN PErr(a3.err) ELSE POk(Call(name, args), a3.p)

nud_call_args(name, l) ==
    IF ~l.ok THEN PErr(l.err)
    ELSE IF l.p.current_token.t # "RParen"
    THEN PErr("Expected ')' after function arguments")
    ELSE nud_call_close(name, l.args, advance(l.p))

\* the Identifier arm after LParen has been consumed
nud_call(name, a2) ==
    IF ~a2.ok THEN PErr(a2.err)
    ELSE nud_call_args(name, IF a2.p.current_token.t # "RParen"
                             THEN nud_args(a2.p)
                             ELSE ArgsState(TRUE, FALSE, <<>>, a2.p, ""))

\* the Minus arm after its operand
nud_neg(r) == IF ~r.ok THEN r ELSE POk(Unary("Neg", r.expr), r.p)

\* the LParen arm after the inner expression
nud_paren_close(expr, a2) ==
    IF ~a2.ok THEN PErr(a2.err) ELSE POk(expr, a2.p)

nud_paren(r) ==
    IF ~r.ok THEN r
    ELSE IF r.p.current_token.t # "RParen" THEN PErr("Expected ')'")
    ELSE nud_paren_close(r.expr, advance(r.p))

\* the match of nud, on the token that was current before self.advance()?
nud_token(token, a) ==
    IF ~a.ok THEN PErr(a.err)
    ELSE CASE token.t = "Number" -> POk(Number(token.v), a.p)
           [] token.t = "Identifier" ->
                IF a.p.current_token.t = "LParen"
                THEN nud_call(token.name, advance(a.p))
                ELSE POk(Variable(token.name), a.p)
           [] token.t = "Minus" -> nud_neg(expression(a.p, bp_prefix(Tok("Minus"))))
           [] token.t = "LParen" -> nud_paren(expression(a.p, 0))
           [] OTHER -> PErr("Unexpected token in nud")

nud(p) == nud_token(p.current_token, advance(p))

\* led after let right = self.expression(r_bp)?
led_right(left, token, r) ==
    IF ~r.ok THEN r
    ELSE CASE token.t = "Plus" -> POk(Binary("Add", left, r.expr), r.p)
           [] token.t = "Minus" -> POk(Binary("Sub", left, r.expr), r.p)
           [] token.t = "Star" -> POk(Binary("Mul", left, r.expr), r.p)
           [] token.t = "Slash" -> POk(Binary("Div", left, r.expr), r.p)
           [] token.t = "Caret" -> POk(Binary("Pow", left, r.expr), r.p)
           [] OTHER -> PErr("Unexpected token in led")

led(left, token, r_bp, p) == led_right(left, token, expression(p, r_bp))

parse(p) == expression(p, 0)

(***************************************************************************)
(* bytecode.rs: OpCode and Program.  A function pointer of func_table is   *)
(* modelled by the name of the Rust function it points to.                 *)
(***************************************************************************)
OpLoadConst == 0
OpLoadVar == 1
OpAdd == 2
OpSub == 3
OpMul == 4
OpDiv == 5
OpPow == 6
OpNeg == 7
OpCall == 8

Program_new ==
    [instructions |-> <<>>, constants |-> <<>>, var_names |-> <<>>,
     func_table |-> <<>>, func_names |-> <<>>, func_metadata |-> <<>>]

(***************************************************************************)
(* compiler.rs.  A Compiler is [program, var_map, func_map, keys].  A      *)
(* HashMap is the sequence of its <<name, index>> entries in the order its *)
(* table holds them; that order comes from the hash keys HashMap::new()    *)
(* draws, which differ from one Compiler value to the next.                *)
(***************************************************************************)
\* the hash keys a HashMap::new() may draw
RandomStates == {0, 1}

\* Compiler::new when its maps draw the hash keys `keys`
Compiler_with(keys) ==
    [program |-> Program_new, var_map |-> <<>>, func_map |-> <<>>, keys |-> keys]

Compiler_new == Compiler_with(0)

\* HashMap::get and HashMap::insert of a key the map does not hold
MapHas(m, name) == \E i \in 1..Len(m) : m[i][1] = name
MapGet(m, name) == m[CHOOSE i \in 1..Len(m) : m[i][1] = name][2]
MapInsert(m, keys, name, idx) ==
    IF keys = 0 THEN Append(m, <<name, idx>>) ELSE <<(<<name, idx>>)>> \o m

\* the patterns Expr::Number(0.0) and Expr::Number(1.0): a float pattern
\* matches by ==
IsNumber0(e) == e.k = "Number" /\ FEq(e.v, Zero)
IsNumber1(e) == e.k = "Number" /\ FEq(e.v, One)
\* fold_binary with the test of the divisor left out: Div is folded like the
\* other operators
fold_binary_every_div(op, left, right) ==
    LET a == left.v
        b == right.v
    IN  CASE op = "Add" -> Number(FAdd(a, b))
          [] op = "Sub" -> Number(FSub(a, b))
          [] op = "Mul" -> Number(FMul(a, b))
          [] op = "Div" -> Number(FDiv(a, b))
          [] op = "Pow" -> Number(FPow(a, b))

\* fold_binary with the Pow arm left out: a power of two literals stays a
\* Binary
fold_binary_keeps_pow(op, left, right) ==
    LET a == left.v
        b == right.v
    IN  CASE op = "Add" -> Number(FAdd(a, b))
          [] op = "Sub" -> Number(FSub(a, b))
          [] op = "Mul" -> Number(FMul(a, b))
          [] op = "Div" -> IF FEq(b, Zero) THEN Binary(op, left, right)
                           ELSE Number(FDiv(a, b))
          [] op = "Pow" -> Binary(op, left, right)

\* the fold arm of optimize_expr: both operands are Number
fold_binary(op, left, right) ==
    LET a == left.v
        b == right.v
    IN  CASE op = "Add" -> Number(FAdd(a, b))
          [] op = "Sub" -> Number(FSub(a, b))
          [] op = "Mul" -> Number(FMul(a, b))
          [] op = "Div" -> IF FEq(b, Zero) THEN Binary(op, left, right)
                           ELSE Number(FDiv(a, b))
          [] op = "Pow" -> Number(FPow(a, b))

\* the algebraic arm without the pattern x * 1
algebraic_keeps_times_one(op, left, right) ==
    CASE IsNumber0(left) /\ op = "Add" -> right
      [] IsNumber0(right) /\ op = "Add" -> left
      [] IsNumber0(right) /\ op = "Sub" -> left
      [] IsNumber0(left) /\ op = "Mul" -> Number(Zero)
      [] IsNumber0(right) /\ op = "Mul" -> Number(Zero)
      [] IsNumber1(left) /\ op = "Mul" -> right
      [] IsNumber1(right) /\ op = "Div" -> left
      [] IsNumber0(right) /\ op = "Pow" -> Number(One)
      [] IsNumber1(right) /\ op = "Pow" -> left
      [] OTHER -> Binary(op, left, right)

\* the algebraic arm of optimize_expr: the first matching pattern wins
algebraic(op, left, right) ==
    CASE IsNumber0(left) /\ op = "Add" -> right
      [] IsNumber0(right) /\ op = "Add" -> left
      [] IsNumber0(right) /\ op = "Sub" -> left
      [] IsNumber0(left) /\ op = "Mul" -> Number(Zero)
      [] IsNumber0(right) /\ op = "Mul" -> Number(Zero)
      [] IsNumber1(left) /\ op = "Mul" -> right
      [] IsNumber1(right) /\ op = "Mul" -> left
      [] IsNumber1(right) /\ op = "Div" -> left
      [] IsNumber0(right) /\ op = "Pow" -> Number(One)
      [] IsNumber1(right) /\ op = "Pow" -> left
      [] OTHER -> Binary(op, left, right)

RECURSIVE optimize_expr(_)
optimize_expr(expr) ==
    CASE expr.k = "Binary" ->
            LET left == optimize_expr(expr.left)
                right == optimize_expr(expr.right)
            IN  IF left.k = "Number" /\ right.k = "Number"
                THEN fold_binary(expr.op, left, right)
                ELSE algebraic(expr.op, left, right)
      [] expr.k = "Unary" ->
            LET e == optimize_expr(expr.expr)
            IN  IF e.k = "Number" THEN Number(FNeg(e.v)) ELSE Unary(expr.op, e)
      [] expr.k = "Call" ->
            Call(expr.func, [i \in 1..Len(expr.args) |-> optimize_expr(expr.args[i])])
      [] OTHER -> expr

emit_byte(c, b) ==
    [c EXCEPT !.program.instructions = Append(@, b)]

emit_u16(c, value) ==
    emit_byte(emit_byte(c, (value \div 256) % 256), value % 256)

emit_load_const(c, idx) == emit_u16(emit_byte(c, OpLoadConst), idx)
\* emit_load_var with the operand left at 0
emit_load_var_slot0(c, idx) == emit_u16(emit_byte(c, OpLoadVar), 0)
emit_load_var(c, idx) == emit_u16(emit_byte(c, OpLoadVar), idx)

emit_binop(c, op) ==
    emit_byte(c, CASE op = "Add" -> OpAdd
                   [] op = "Sub" -> OpSub
                   [] op = "Mul" -> OpMul
                   [] op = "Div" -> OpDiv
                   [] op = "Pow" -> OpPow)

emit_unop(c, op) == emit_byte(c, OpNeg)

emit_call(c, func_idx, arg_count) ==
    emit_byte(emit_u16(emit_byte(c, OpCall), func_idx), arg_count)

\* the pair <<compiler after the call, index returned>>; `as u16` keeps the
\* low 16 bits
add_constant(c, value) ==
    LET cs == c.program.constants
        hits == {i \in 1..Len(cs) : FEq(cs[i], value)}
    IN  IF hits # {}
        THEN <<c, ((CHOOSE i \in hits : \A j \in hits : i <= j) - 1) % 65536>>
        ELSE <<[c EXCEPT !.program.constants = Append(@, value)], Len(cs) % 65536>>

\* resolve_var with the index of a new name taken from the place of its
\* entry in the map's table
resolve_var_by_table_order(c, name) ==
    IF MapHas(c.var_map, name) THEN <<c, MapGet(c.var_map, name)>>
    ELSE LET idx == IF c.keys = 0 THEN Len(c.var_map) ELSE 0
         IN  <<[c EXCEPT !.program.var_names = Append(@, name),
                         !.var_map = MapInsert(@, c.keys, name, idx)], idx>>

resolve_var(c, name) ==
    IF MapHas(c.var_map, name) THEN <<c, MapGet(c.var_map, name)>>
    ELSE LET idx == Len(c.program.var_names) % 65536
         IN  <<[c EXCEPT !.program.var_names = Append(@, name),
                         !.var_map = MapInsert(@, c.keys, name, idx)], idx>>

\* the match of resolve_func: source name -> the function registered
Builtins ==
    << <<(<<"s", "i", "n">>), "builtin_sin">>,
       <<(<<"c", "o", "s">>), "builtin_cos">>,
       <<(<<"t", "a", "n">>), "builtin_tan">>,
       <<(<<"s", "q", "r", "t">>), "builtin_sqrt">>,
       <<(<<"a", "b", "s">>), "builtin_abs">>,
       <<(<<"f", "l", "o", "o", "r">>), "builtin_floor">>,
       <<(<<"c", "e", "i", "l">>), "builtin_ceil">>,
       <<(<<"r", "o", "u", "n", "d">>), "builtin_round">>,
       <<(<<"e", "x", "p">>), "builtin_exp">>,
       <<(<<"l", "n">>), "builtin_ln">>,
       <<(<<"l", "o", "g", "1", "0">>), "builtin_log10">>,
       <<(<<"m", "a", "x">>), "builtin_max">>,
       <<(<<"m", "i", "n">>), "builtin_min">> >>

\* resolve_func with max registered for the names outside the match
resolve_func_unknown_as_max(c, name) ==
    IF MapHas(c.func_map, name) THEN <<c, MapGet(c.func_map, name)>>
    ELSE LET idx == Len(c.program.func_names) % 65536
             known == {i \in 1..Len(Builtins) : Builtins[i][1] = name}
             func_ptr == IF known # {} THEN Builtins[CHOOSE i \in known : TRUE][2]
                         ELSE "builtin_max"
         IN  <<[c EXCEPT !.program.func_table = Append(@, func_ptr),
                         !.program.func_names = Append(@, name),
                         !.func_map = MapInsert(@, c.keys, name, idx)], idx>>

resolve_func(c, name) ==
    IF MapHas(c.func_map, name) THEN <<c, MapGet(c.func_map, name)>>
    ELSE LET idx == Len(c.program.func_names) % 65536
             known == {i \in 1..Len(Builtins) : Builtins[i][1] = name}
             func_ptr == IF known # {} THEN Builtins[CHOOSE i \in known : TRUE][2]
                         ELSE "builtin_unknown"
         IN  <<[c EXCEPT !.program.func_table = Append(@, func_ptr),
                         !.program.func_names = Append(@, name),
                         !.func_map = MapInsert(@, c.keys, name, idx)], idx>>

RECURSIVE compile_expr(_, _), compile_args(_, _, _, _)

\* the `for arg in args` loop of compile_expr's Call arm over args[lo..hi],
\* in order; the range is split in halves so that a long argument list does
\* not nest the evaluation Len(args) deep
compile_args(c, args, lo, hi) ==
    IF lo > hi THEN c
    ELSE IF lo = hi THEN compile_expr(c, args[lo])
    ELSE LET mid == (lo + hi) \div 2
             left == compile_args(c, args, lo, mid)
         IN  IF Evaluated(left) THEN compile_args(left, args, mid + 1, hi) ELSE left

compile_expr(c, expr) ==
    CASE expr.k = "Number" ->
            LET r == add_constant(c, expr.v) IN emit_load_const(r[1], r[2])
      [] expr.k = "Variable" ->
            LET r == resolve_var(c, expr.name) IN emit_load_var(r[1], r[2])
      [] expr.k = "Binary" ->
            emit_binop(compile_expr(compile_expr(c, expr.left), expr.right), expr.op)
      [] expr.k = "Unary" ->
            emit_unop(compile_expr(c, expr.expr), expr.op)
      [] expr.k = "Call" ->
            LET arg_count == Len(expr.args) % 256
                r == resolve_func(compile_args(c, expr.args, 1, Len(expr.args)), expr.func)
            IN  emit_call(r[1], r[2], arg_count)

\* compiler.rs, Compiler::compile: optimize, lower, hand out the program
Compiler_compile(c, expr) == compile_expr(c, optimize_expr(expr)).program

\* lib.rs, Compiler::compile: the Result, with the parse tree kept beside it
\* by the BytecodeCompiler value `compiler`
compile_by(input, compiler) ==
    LET n == Parser_new(input)
    IN  IF ~n.ok THEN [ok |-> FALSE, err |-> n.err]
        ELSE LET r == parse(n.p)
             IN  IF ~r.ok THEN [ok |-> FALSE, err |-> r.err]
                 ELSE [ok |-> TRUE, err |-> "", ast |-> r.expr, rest |-> r.p,
                       program |-> Compiler_compile(compiler, r.expr)]

compile(input) == compile_by(input, Compiler_new)

(***************************************************************************)
(* compiler.rs: the built-in functions.  A call returns [panic, v]: the    *)
(* one-argument functions index args[0], which aborts on an empty slice.   *)
(***************************************************************************)
RECURSIVE FoldArgs(_, _, _, _, _)
\* args.iter().fold(acc, |a, &b| a.max(b)) over args[lo..hi], and the same
\* with min; the range is folded by halves, left half first
FoldArgs(args, lo, hi, acc, useMax) ==
    IF lo > hi THEN acc
    ELSE IF lo = hi
    THEN (IF useMax THEN FMax(acc, args[lo]) ELSE FMin(acc, args[lo]))
    ELSE LET mid == (lo + hi) \div 2
             left == FoldArgs(args, lo, mid, acc, useMax)
         IN  IF Evaluated(left) THEN FoldArgs(args, mid + 1, hi, left, useMax) ELSE left

Returns(v) == [panic |-> FALSE, v |-> v]
Aborts == [panic |-> TRUE, v |-> Zero]

builtin_first(args, v) == IF args = <<>> THEN Aborts ELSE Returns(v)

call_builtin(func_ptr, args) ==
    CASE func_ptr = "builtin_sin" -> builtin_first(args, FSin(args[1]))
      [] func_ptr = "builtin_cos" -> builtin_first(args, FCos(args[1]))
      [] func_ptr = "builtin_tan" -> builtin_first(args, FTan(args[1]))
      [] func_ptr = "builtin_sqrt" -> builtin_first(args, FSqrt(args[1]))
      [] func_ptr = "builtin_abs" -> builtin_first(args, FAbs(args[1]))
      [] func_ptr = "builtin_floor" -> builtin_first(args, FFloor(args[1]))
      [] func_ptr = "builtin_ceil" -> builtin_first(args, FCeil(args[1]))
      [] func_ptr = "builtin_round" -> builtin_first(args, FRound(args[1]))
      [] func_ptr = "builtin_exp" -> builtin_first(args, FExp(args[1]))
      [] func_ptr = "builtin_ln" -> builtin_first(args, FLn(args[1]))
      [] func_ptr = "builtin_log10" -> builtin_first(args, FLog10(args[1]))
      [] func_ptr = "builtin_max" -> Returns(FoldArgs(args, 1, Len(args), NInf, TRUE))
      [] func_ptr = "builtin_min" -> Returns(FoldArgs(args, 1, Len(args), PInf, FALSE))
      [] OTHER -> Returns(NaN)

(***************************************************************************)
(* vm.rs: Context.  A Context is its `values` vector; an Option<f64> is    *)
(* [some, v].                                                              *)
(***************************************************************************)
Context_new == <<>>
Context_with_capacity(capacity) == [i \in 1..capacity |-> Zero]

Some(v) == [some |-> TRUE, v |-> v]
None == [some |-> FALSE, v |-> Zero]

\* the 0-based position of the first element equal to name, as an Option
position(names, name) ==
    LET hits == {i \in 1..Len(names) : names[i] = name}
    IN  IF hits = {} THEN [some |-> FALSE, idx |-> 0]
        ELSE [some |-> TRUE, idx |-> (CHOOSE i \in hits : \A j \in hits : i <= j) - 1]

\* set_by_index with the new slots filled with the value set
set_by_index_fill_value(values, index, value) ==
    LET resized == IF index >= Len(values)
                   THEN values \o [i \in 1..(index + 1 - Len(values)) |-> value]
                   ELSE values
    IN  [resized EXCEPT ![index + 1] = value]

set_by_index(values, index, value) ==
    LET resized == IF index >= Len(values)
                   THEN values \o [i \in 1..(index + 1 - Len(values)) |-> Zero]
                   ELSE values
    IN  [resized EXCEPT ![index + 1] = value]

set(values, name, value, program) ==
    LET pos == position(program.var_names, name)
    IN  IF pos.some THEN set_by_index(values, pos.idx, value)
        ELSE Append(values, value)

get_by_index(values, index) ==
    IF index < Len(values) THEN Some(values[index + 1]) ELSE None

get(values, name, program) ==
    LET pos == position(program.var_names, name)
    IN  IF pos.some THEN get_by_index(values, pos.idx) ELSE None

(***************************************************************************)
(* vm.rs: VM.  A run is [status, pc, stack, result, err]; status is        *)
(* "running", "ok" (Ok(result)), "err" (Err(err)) or "panic" (the thread   *)
(* aborted: an index out of bounds).  VM_step executes the instruction at  *)
(* pc, or the final pop when pc is at the end.                             *)
(***************************************************************************)
VM_new == [status |-> "idle", pc |-> 0, stack |-> <<>>, result |-> Zero, err |-> ""]

Running(pc, stack) ==
    [status |-> "running", pc |-> pc, stack |-> stack, result |-> Zero, err |-> ""]
Failed(pc, stack, msg) ==
    [status |-> "err", pc |-> pc, stack |-> stack, result |-> Zero, err |-> msg]
Panicked(pc, stack) ==
    [status |-> "panic", pc |-> pc, stack |-> stack, result |-> Zero, err |-> ""]
Returned(pc, stack, v) ==
    [status |-> "ok", pc |-> pc, stack |-> stack, result |-> v, err |-> ""]

Pop1(stack) == SubSeq(stack, 1, Len(stack) - 1)
Top(stack) == stack[Len(stack)]
\* the entry of VM::run with the length test left out
VM_run_unchecked(program, values, vm) == Running(0, vm.stack)

\* the entry of VM::run: the variable-count check
VM_run_check(program, values, vm) ==
    IF Len(values) < Len(program.var_names)
    THEN Failed(0, vm.stack, "Context missing variables")
    ELSE Running(0, vm.stack)

\* the arms Add, Sub, Mul, Div, Pow: pop b, pop a, push
binary_arm(opcode, pc, stack) ==
    IF Len(stack) = 0 THEN Failed(pc, stack, "Stack underflow")
    ELSE IF Len(stack) = 1 THEN Failed(pc, <<>>, "Stack underflow")
    ELSE LET b == Top(stack)
             a == Top(Pop1(stack))
             rest == Pop1(Pop1(stack))
         IN  CASE opcode = OpAdd -> Running(pc, Append(rest, FAdd(a, b)))
               [] opcode = OpSub -> Running(pc, Append(rest, FSub(a, b)))
               [] opcode = OpMul -> Running(pc, Append(rest, FMul(a, b)))
               [] opcode = OpDiv -> IF FEq(b, Zero) THEN Failed(pc, rest, "Division by zero")
                                    ELSE Running(pc, Append(rest, FDiv(a, b)))
               [] opcode = OpPow -> Running(pc, Append(rest, FPow(a, b)))

\* the Call arm handing the function its arguments last pushed first
call_arm_last_first(program, pc, stack) ==
    LET instructions == program.instructions
    IN  IF pc + 3 > Len(instructions) THEN Panicked(pc, stack)
        ELSE LET func_idx == instructions[pc + 1] * 256 + instructions[pc + 2]
                 arg_count == instructions[pc + 3]
                 pc3 == pc + 3
             IN  IF func_idx >= Len(program.func_table)
                 THEN Failed(pc3, stack, "Invalid function index")
                 ELSE IF Len(stack) < arg_count
                 THEN Failed(pc3, stack, "Stack underflow in function call")
                 ELSE LET args_start == Len(stack) - arg_count
                          r == call_builtin(program.func_table[func_idx + 1],
                                            [i \in 1..arg_count |-> stack[Len(stack) + 1 - i]])
                      IN  IF r.panic THEN Panicked(pc3, stack)
                          ELSE Running(pc3, Append(SubSeq(stack, 1, args_start), r.v))

\* the Call arm of VM::run
call_arm(program, pc, stack) ==
    LET instructions == program.instructions
    IN  IF pc + 3 > Len(instructions) THEN Panicked(pc, stack)
        ELSE LET func_idx == instructions[pc + 1] * 256 + instructions[pc + 2]
                 arg_count == instructions[pc + 3]
                 pc3 == pc + 3
             IN  IF func_idx >= Len(program.func_table)
                 THEN Failed(pc3, stack, "Invalid function index")
                 ELSE IF Len(stack) < arg_count
                 THEN Failed(pc3, stack, "Stack underflow in function call")
                 ELSE LET args_start == Len(stack) - arg_count
                          r == call_builtin(program.func_table[func_idx + 1],
                                            SubSeq(stack, args_start + 1, Len(stack)))
                      IN  IF r.panic THEN Panicked(pc3, stack)
                          ELSE Running(pc3, Append(SubSeq(stack, 1, args_start), r.v))

VM_step(program, values, vm) ==
    LET instructions == program.instructions
        stack == vm.stack
    IN  IF vm.pc >= Len(instructions)
        THEN IF stack = <<>> THEN Failed(vm.pc, stack, "Stack underflow")
             ELSE Returned(vm.pc, Pop1(stack), Top(stack))
        ELSE LET opcode == instructions[vm.pc + 1]
                 pc == vm.pc + 1
             IN  CASE opcode \in {OpLoadConst, OpLoadVar} ->
                        IF pc + 2 > Len(instructions) THEN Panicked(pc, stack)
                        ELSE LET idx == instructions[pc + 1] * 256 + instructions[pc + 2]
                                 pool == IF opcode = OpLoadConst THEN program.constants
                                         ELSE values
                             IN  IF idx >= Len(pool) THEN Panicked(pc + 2, stack)
                                 ELSE Running(pc + 2, Append(stack, pool[idx + 1]))
                   [] opcode \in {OpAdd, OpSub, OpMul, OpDiv, OpPow} ->
                        binary_arm(opcode, pc, stack)
                   [] opcode = OpNeg ->
                        IF stack = <<>> THEN Failed(pc, stack, "Stack underflow")
                        ELSE Running(pc, Append(Pop1(stack), FNeg(Top(stack))))
                   [] opcode = OpCall -> call_arm(program, pc, stack)
                   [] OTHER -> Failed(pc, stack, "Unknown opcode")

\* n steps of the dispatch loop, or fewer when the run ends; split in halves
\* so that a long program does not nest the evaluation n deep
RECURSIVE VM_run_steps(_, _, _, _)
VM_run_steps(program, values, vm, n) ==
    IF n = 0 \/ vm.status # "running" THEN vm
    ELSE IF n = 1 THEN VM_step(program, values, vm)
    ELSE LET half == VM_run_steps(program, values, vm, n \div 2)
         IN  IF half.status # "running" THEN half
             ELSE VM_run_steps(program, values, half, n - (n \div 2))

\* VM::run from entry to return: every instruction advances pc, so the loop
\* makes at most Len(instructions) passes, and the final pop is one more step
VM_run(program, values, vm) ==
    VM_run_steps(program, values, VM_run_check(program, values, vm),
                 Len(program.instructions) + 1)

\* lib.rs, Program::eval: a fresh VM, one run
eval(program, values) == VM_run(program, values, VM_new)

(***************************************************************************)
(* vm.rs, VM::run_batch.  The outcome of a batch is [status, results, err, *)
(* index, got, expected, stack]: status is "ok", "err" or "panic"; for the *)
(* variable-count error index, got and expected are the three numbers of   *)
(* its message.  The dispatch loop of run_batch is, arm by arm, the loop   *)
(* of run, so both use VM_step.                                            *)
(***************************************************************************)
BatchReturned(results, stack) ==
    [status |-> "ok", results |-> results, err |-> "",
     index |-> 0, got |-> 0, expected |-> 0, stack |-> stack]
BatchFailed(msg, index, got, expected, stack) ==
    [status |-> "err", results |-> <<>>, err |-> msg,
     index |-> index, got |-> got, expected |-> expected, stack |-> stack]
BatchPanicked(stack) ==
    [status |-> "panic", results |-> <<>>, err |-> "",
     index |-> 0, got |-> 0, expected |-> 0, stack |-> stack]

\* the length test of run_batch written as the one of run: only a shorter
\* vector is refused
run_batch_mismatch_shorter(program, var_values) ==
    Len(var_values) < Len(program.var_names)

\* the test at the head of the loop body: the vector's length is wrong
run_batch_mismatch(program, var_values) ==
    Len(var_values) # Len(program.var_names)

\* one vector after the length test: stack.clear(), pc = 0, the dispatch
\* loop and the pop that results.push takes its value from
run_batch_vector(program, var_values) ==
    VM_run_steps(program, var_values, Running(0, <<>>), Len(program.instructions) + 1)

\* the loop over var_sets from index i (0-based), with the results so far
\* and the stack the previous vector left
RECURSIVE run_batch_from(_, _, _, _, _)
\* run_batch_after with the result put in front of the earlier ones
run_batch_after_reversed(program, var_sets, i, results, v) ==
    CASE v.status = "ok" ->
            run_batch_from(program, var_sets, i + 1, <<v.result>> \o results, v.stack)
      [] v.status = "err" -> BatchFailed(v.err, 0, 0, 0, v.stack)
      [] OTHER -> BatchPanicked(v.stack)

\* after one vector has run: keep its result and go on, or leave
run_batch_after(program, var_sets, i, results, v) ==
    CASE v.status = "ok" ->
            run_batch_from(program, var_sets, i + 1, Append(results, v.result), v.stack)
      [] v.status = "err" -> BatchFailed(v.err, 0, 0, 0, v.stack)
      [] OTHER -> BatchPanicked(v.stack)

run_batch_from(program, var_sets, i, results, stack) ==
    IF i >= Len(var_sets) THEN BatchReturned(results, stack)
    ELSE IF run_batch_mismatch(program, var_sets[i + 1])
    THEN BatchFailed("Variable set has wrong number of values", i,
                     Len(var_sets[i + 1]), Len(program.var_names), stack)
    ELSE run_batch_after(program, var_sets, i, results,
                         run_batch_vector(program, var_sets[i + 1]))

run_batch(program, var_sets, vm) == run_batch_from(program, var_sets, 0, <<>>, vm.stack)

\* lib.rs, Program::eval_batch: a fresh VM, one run_batch
eval_batch(program, var_sets) == run_batch(program, var_sets, VM_new)

(***************************************************************************)
(* The inputs.  Compile draws its source from every sequence of at most    *)
(* MaxSrcLen lexemes of Alphabet, from the sources of the repository's     *)
(* tests and a few more, and from calls with 255 and 256 arguments.        *)
(***************************************************************************)
Alphabet ==
    {<<"0">>, <<"1">>, <<"2">>, <<"x">>, <<"y">>, <<"a", "b", "s">>,
     <<"+">>, <<"-">>, <<"*">>, <<"/">>, <<"^">>, <<"(">>, <<")">>, <<",">>}

RECURSIVE Flatten(_)
Flatten(ss) == IF ss = <<>> THEN <<>> ELSE Head(ss) \o Flatten(Tail(ss))

SmallSources ==
    {Flatten(f) : f \in UNION {[1..n -> Alphabet] : n \in 0..MaxSrcLen}}

\*   "1 + 2 * 3"                  lib.rs test_simple_arithmetic
\*   "x * 2 + y"                  lib.rs test_eval_batch_basic
\*   "max(1, 2, 3) + min(4, 5)"   lib.rs test_functions
\*   "2 ^ 3 ^ 2"                  lib.rs test_right_associativity
\*   "x + 1 + y + 1"              compiler.rs test_constant_reuse
\*   "x + y + x"                  compiler.rs test_variable_resolution
\*   "max(S - K, 0) * discount"   lib.rs test_eval_batch_monte_carlo_simulation
\*   "(1 + 2"                     parser.rs test_parse_error_missing_rparen
\*   "sin(x"                      parser.rs test_parse_error_missing_function_rparen
\*   "rand()"                     parser.rs test_parse_function_no_args
\*   "1.2.3"                      lexer.rs test_lexer_invalid_number
\*   "@"                          lexer.rs test_lexer_invalid_character
\*   "1 / 0"                      lib.rs test_error_division_by_zero
\*   "(1/0)*0"                    a product by zero whose other operand fails
\*   "x*0+y"                      a variable removed by the optimizer before another one
\*   "x+y/0"                      two variables and a division by zero
\*   "-1^.5+x+-1^.5"              two folded literals that are NaN
\*   "f(0,-0)"                    both zeros as literals
\*   "1)$"                        input after an unmatched parenthesis
\*   "max(x,1)"                   a call of two arguments
\*   "-x^2"                       prefix minus before a power
\*   "-2^2"                       prefix minus before a power of literals
\*   "2/(1-1)"                    a divisor that folds to zero
\*   "1/-0"                       a divisor that folds to -0.0
\*   "(1/0)/0"                    a division by zero under a division by zero
\*   "abs(x)/0"                   a call divided by zero
TestSources ==
    {
     <<"1", " ", "+", " ", "2", " ", "*", " ", "3">>,
     <<"x", " ", "*", " ", "2", " ", "+", " ", "y">>,
     <<"m", "a", "x", "(", "1", ",", " ", "2", ",", " ", "3", ")", " ", "+", " ", "m", "i", "n", "(", "4", ",", " ", "5", ")">>,
     <<"2", " ", "^", " ", "3", " ", "^", " ", "2">>,
     <<"x", " ", "+", " ", "1", " ", "+", " ", "y", " ", "+", " ", "1">>,
     <<"x", " ", "+", " ", "y", " ", "+", " ", "x">>,
     <<"m", "a", "x", "(", "S", " ", "-", " ", "K", ",", " ", "0", ")", " ", "*", " ", "d", "i", "s", "c", "o", "u", "n", "t">>,
     <<"(", "1", " ", "+", " ", "2">>,
     <<"s", "i", "n", "(", "x">>,
     <<"r", "a", "n", "d", "(", ")">>,
     <<"1", ".", "2", ".", "3">>,
     <<"@">>,
     <<"1", " ", "/", " ", "0">>,
     <<"(", "1", "/", "0", ")", "*", "0">>,
     <<"x", "*", "0", "+", "y">>,
     <<"x", "+", "y", "/", "0">>,
     <<"-", "1", "^", ".", "5", "+", "x", "+", "-", "1", "^", ".", "5">>,
     <<"f", "(", "0", ",", "-", "0", ")">>,
     <<"1", ")", "$">>,
     <<"m", "a", "x", "(", "x", ",", "1", ")">>,
     <<"-", "x", "^", "2">>,
     <<"-", "2", "^", "2">>,
     <<"2", "/", "(", "1", "-", "1", ")">>,
     <<"1", "/", "-", "0">>,
     <<"(", "1", "/", "0", ")", "/", "0">>,
     <<"a", "b", "s", "(", "x", ")", "/", "0">>
    }

\* the source f(1,1,...,1) with n >= 1 arguments
WideCall(n) ==
    <<"f", "(">> \o [i \in 1..(2 * n - 1) |-> IF i % 2 = 1 THEN "1" ELSE ","] \o <<")">>

WideSources == {WideCall(255), WideCall(256)}

\* the sources a o1 b o2 c: three operands joined by two operators
ChainOperands == {"1", "2", "x"}
ChainOps == {"+", "-", "*", "/", "^"}
ChainSources ==
    {<<a, o1, b, o2, c>> : a \in ChainOperands, o1 \in ChainOps, b \in ChainOperands,
                           o2 \in ChainOps, c \in ChainOperands}

\* calls g(), g(a) and g(a, b) of a name outside the match of resolve_func;
\* the arguments are literals, variables, divisions by zero and calls
UnknownArgs ==
    {<<"2">>, <<"x">>, <<"y">>, <<"1", "/", "0">>, <<"x", "/", "0">>,
     <<"h", "(", ")">>, <<"m", "a", "x", "(", ")">>}
UnknownCallSources ==
    {<<"g", "(", ")">>}
    \cup {<<"g", "(">> \o a \o <<")">> : a \in UnknownArgs}
    \cup {<<"g", "(">> \o a \o <<",">> \o b \o <<")">> : a \in UnknownArgs, b \in UnknownArgs}

Sources ==
    SmallSources \cup TestSources \cup WideSources \cup ChainSources
    \cup UnknownCallSources

\* the values and names the Context operations are called with; "z" occurs
\* in no source
CtxVals == {Two, NaN}
CtxNames == {<<"x">>, <<"y">>, <<"z">>}

(***************************************************************************)
(* The state: one Compiler.compile call, then one Context that its owner   *)
(* fills, then one Program.eval on it, instruction by instruction.         *)
(***************************************************************************)
VARIABLES
    source,       \* the input of Compiler.compile
    compiled,     \* "none", or the Result of compile: "ok" / "err"
    compile_err,  \* the error message when compiled = "err"
    ast,          \* the tree parser.parse() returned
    parser,       \* the Parser as parse() left it: [lexer, current_token]
    program,      \* the Program returned
    context,      \* the Context's values
    vm,           \* the VM of the eval call
    var_sets,     \* the input of the eval_batch call
    batch,        \* "idle", or the outcome of the eval_batch call
    contexts,     \* the Context of each of the evaluations sharing program
    vms,          \* the VM of each of the evaluations sharing program
    recompiled,   \* "none", or the Result of a second compile of source
    scan,         \* a Lexer being iterated: its input and the items it gave
    runs          \* the number of run calls made on vm

vars == <<source, compiled, compile_err, ast, parser, program, context, vm,
          var_sets, batch, contexts, vms, recompiled, scan, runs>>

\* the evaluations that share one Program, each on its own thread
Evals == 1..MaxEvals

NoParser == [lexer |-> <<>>, current_token |-> Tok("EOF")]

\* no Lexer is being iterated
NotScanning == [status |-> "none", input |-> <<>>, rest |-> <<>>, items |-> <<>>]

\* source has been compiled once only
NotRecompiled == [status |-> "none", err |-> "", program |-> Program_new, keys |-> 0]

\* no eval_batch call has been made
BatchIdle ==
    [status |-> "idle", results |-> <<>>, err |-> "",
     index |-> 0, got |-> 0, expected |-> 0, stack |-> <<>>]

Init ==
    /\ source = <<>>
    /\ compiled = "none"
    /\ compile_err = ""
    /\ ast = Number(Zero)
    /\ parser = NoParser
    /\ program = Program_new
    /\ context = Context_new
    /\ vm = VM_new
    /\ var_sets = <<>>
    /\ batch = BatchIdle
    /\ contexts = [e \in Evals |-> Context_new]
    /\ vms = [e \in Evals |-> VM_new]
    /\ recompiled = NotRecompiled
    /\ scan = NotScanning
    /\ runs = 0

\* the caller keeps what compile returned: r is compile(input)
Compiled(input, r) ==
    /\ source' = input
    /\ compiled' = IF r.ok THEN "ok" ELSE "err"
    /\ compile_err' = r.err
    /\ ast' = IF r.ok THEN r.ast ELSE ast
    /\ parser' = IF r.ok THEN r.rest ELSE parser
    /\ program' = IF r.ok THEN r.program ELSE program

\* what the caller keeps of the second compile: r is its Result
Recompiled(r, keys) ==
    [status |-> IF r.ok THEN "ok" ELSE "err", err |-> r.err,
     program |-> IF r.ok THEN r.program ELSE Program_new, keys |-> keys]

\* lib.rs, Compiler::compile(input)
Compile ==
    /\ compiled = "none"
    /\ \E input \in Sources : Compiled(input, compile(input))
    /\ UNCHANGED <<context, vm, var_sets, batch, contexts, vms, recompiled, scan, runs>>

\* lib.rs, Program::create_context
CreateContext ==
    /\ compiled = "ok" /\ vm.status = "idle"
    /\ context' = Context_with_capacity(Len(program.var_names))
    /\ UNCHANGED <<source, compiled, compile_err, ast, parser, program, vm, var_sets, batch,
                   contexts, vms, recompiled, scan, runs>>

\* vm.rs, Context::set_by_index
SetByIndex(index, value) ==
    /\ compiled = "ok" /\ vm.status = "idle"
    /\ context' = set_by_index(context, index, value)
    /\ UNCHANGED <<source, compiled, compile_err, ast, parser, program, vm, var_sets, batch,
                   contexts, vms, recompiled, scan, runs>>

\* vm.rs, Context::set; a push is taken only below MaxCtxLen
Set(name, value) ==
    /\ compiled = "ok" /\ vm.status = "idle"
    /\ position(program.var_names, name).some \/ Len(context) < MaxCtxLen
    /\ context' = set(context, name, value, program)
    /\ UNCHANGED <<source, compiled, compile_err, ast, parser, program, vm, var_sets, batch,
                   contexts, vms, recompiled, scan, runs>>

\* lib.rs, Program::eval: VM::new and the entry of VM::run
EvalStart ==
    /\ compiled = "ok" /\ vm.status = "idle"
    /\ vm' = VM_run_check(program, context, VM_new)
    /\ UNCHANGED <<source, compiled, compile_err, ast, parser, program, context,
                   var_sets, batch, contexts, vms, recompiled, scan, runs>>

\* one pass of the dispatch loop of VM::run
Step ==
    /\ vm.status = "running" /\ vm.pc < Len(program.instructions)
    /\ vm' = VM_step(program, context, vm)
    /\ UNCHANGED <<source, compiled, compile_err, ast, parser, program, context,
                   var_sets, batch, contexts, vms, recompiled, scan, runs>>

\* the final self.pop() of VM::run
Finish ==
    /\ vm.status = "running" /\ vm.pc >= Len(program.instructions)
    /\ vm' = VM_step(program, context, vm)
    /\ UNCHANGED <<source, compiled, compile_err, ast, parser, program, context,
                   var_sets, batch, contexts, vms, recompiled, scan, runs>>

Next ==
    \/ Compile
    \/ CreateContext
    \/ \E index \in 0..(MaxCtxLen - 1), value \in CtxVals : SetByIndex(index, value)
    \/ \E name \in CtxNames, value \in CtxVals : Set(name, value)
    \/ EvalStart
    \/ Step
    \/ Finish

Spec == Init /\ [][Next]_vars

(***************************************************************************)
(* A second specification: one compile, then one eval_batch call on the    *)
(* program.                                                                *)
(***************************************************************************)
\* the vectors whose length is n, one less or one more, and the batches of
\* at most MaxBatchLen of them
Vectors(n) == UNION {[1..k -> CtxVals] : k \in {n - 1, n, n + 1} \cap Nat}
Batches(n) == UNION {[1..k -> Vectors(n)] : k \in 0..MaxBatchLen}

\* lib.rs, Program::eval_batch(var_sets)
EvalBatch ==
    /\ compiled = "ok" /\ batch.status = "idle"
    /\ \E input \in Batches(Len(program.var_names)) :
          /\ var_sets' = input
          /\ batch' = eval_batch(program, input)
    /\ UNCHANGED <<source, compiled, compile_err, ast, parser, program, context, vm,
                   contexts, vms, recompiled, scan, runs>>

NextBatch ==
    \/ Compile
    \/ EvalBatch

SpecBatch == Init /\ [][NextBatch]_vars

(***************************************************************************)
(* A third specification: one compile, then MaxEvals calls of Program.eval *)
(* on the one Program, each by its own caller with its own Context and its *)
(* own VM (eval makes the VM), their dispatch loops interleaved pass by    *)
(* pass.  eval takes &self and &Context: a running evaluation's Context    *)
(* cannot be written by its owner.                                         *)
(***************************************************************************)
SharedSources == TestSources

\* lib.rs, Compiler::compile(input), before the evaluations start
CompileShared ==
    /\ compiled = "none"
    /\ \E input \in SharedSources : Compiled(input, compile(input))
    /\ UNCHANGED <<context, vm, var_sets, batch, contexts, vms, recompiled, scan, runs>>

\* the VMs after the VM of evaluation e became v, with every VM on the one
\* stack of v
Stepped_one_stack(e, v) ==
    [f \in Evals |-> IF f = e THEN v ELSE [vms[f] EXCEPT !.stack = v.stack]]

\* the VMs after the VM of evaluation e became v: run takes &mut self, the
\* stack and the pc are the VM's own
Stepped(e, v) == [vms EXCEPT ![e] = v]

\* evaluation e: its caller's Context, then Program::eval up to the entry
\* of VM::run
SharedEvalStart(e) ==
    /\ compiled = "ok" /\ vms[e].status = "idle"
    /\ \E values \in [1..Len(program.var_names) -> CtxVals] :
          /\ contexts' = [contexts EXCEPT ![e] = values]
          /\ vms' = Stepped(e, VM_run_check(program, values, VM_new))
    /\ UNCHANGED <<source, compiled, compile_err, ast, parser, program, context, vm,
                   var_sets, batch, recompiled, scan, runs>>

\* evaluation e: one pass of the dispatch loop of VM::run
SharedStep(e) ==
    /\ vms[e].status = "running" /\ vms[e].pc < Len(program.instructions)
    /\ vms' = Stepped(e, VM_step(program, contexts[e], vms[e]))
    /\ UNCHANGED <<source, compiled, compile_err, ast, parser, program, context, vm,
                   var_sets, batch, contexts, recompiled, scan, runs>>

\* evaluation e: the final self.pop() of VM::run
SharedFinish(e) ==
    /\ vms[e].status = "running" /\ vms[e].pc >= Len(program.instructions)
    /\ vms' = Stepped(e, VM_step(program, contexts[e], vms[e]))
    /\ UNCHANGED <<source, compiled, compile_err, ast, parser, program, context, vm,
                   var_sets, batch, contexts, recompiled, scan, runs>>

NextShared ==
    \/ CompileShared
    \/ \E e \in Evals : SharedEvalStart(e)
    \/ \E e \in Evals : SharedStep(e)
    \/ \E e \in Evals : SharedFinish(e)

SpecShared == Init /\ [][NextShared]_vars

(***************************************************************************)
(* A fourth specification: one compile, then a second compile of the same  *)
(* source by another Compiler value, whose maps draw their own hash keys.  *)
(***************************************************************************)
\* lib.rs, Compiler::compile(source) again
Recompile ==
    /\ compiled # "none" /\ recompiled.status = "none"
    /\ \E keys \in RandomStates :
          recompiled' = Recompiled(compile_by(source, Compiler_with(keys)), keys)
    /\ UNCHANGED <<source, compiled, compile_err, ast, parser, program, context, vm,
                   var_sets, batch, contexts, vms, scan, runs>>

NextTwice ==
    \/ Compile
    \/ Recompile

SpecTwice == Init /\ [][NextTwice]_vars

(***************************************************************************)
(* A fifth specification: a Lexer on some input, pulled item by item       *)
(* through its Iterator.  The items are the Results of next_token: an item *)
(* is [ok, tok, err].                                                      *)
(***************************************************************************)
\* the characters of the inputs: a digit, the point, a letter, the
\* underscore, an operator, a blank, a character next_token rejects, and
\* two alphanumeric characters outside ASCII
LexAlphabet == {"1", ".", "a", "_", "+", " ", "@", "U+00E9", "U+0663"}
LexSources == UNION {[1..n -> LexAlphabet] : n \in 0..MaxLexLen}

\* lexer.rs, Lexer::new(input)
ScanStart ==
    /\ scan.status = "none"
    /\ \E input \in LexSources :
          scan' = [status |-> "scanning", input |-> input, rest |-> input,
                   items |-> <<>>]
    /\ UNCHANGED <<source, compiled, compile_err, ast, parser, program, context, vm,
                   var_sets, batch, contexts, vms, recompiled, runs>>

\* Iterator::next after its next_token call returned r: None on Ok(EOF),
\* Some(r) on every other token and on an error
Scanned(r) ==
    IF r.ok /\ r.tok.t = "EOF"
    THEN [scan EXCEPT !.status = "done", !.rest = r.rest]
    ELSE [scan EXCEPT !.rest = r.rest,
                      !.items = Append(@, [ok |-> r.ok, tok |-> r.tok, err |-> r.err])]

\* lexer.rs, Iterator::next; the caller stops pulling after MaxItems items
ScanNext ==
    /\ scan.status = "scanning" /\ Len(scan.items) < MaxItems
    /\ scan' = Scanned(next_token(scan.rest))
    /\ UNCHANGED <<source, compiled, compile_err, ast, parser, program, context, vm,
                   var_sets, batch, contexts, vms, recompiled, runs>>

NextLexer ==
    \/ ScanStart
    \/ ScanNext

SpecLexer == Init /\ [][NextLexer]_vars

(***************************************************************************)
(* A sixth specification: a Program built by hand (as the tests of vm.rs   *)
(* build theirs), and one VM on it whose run is called up to MaxRuns       *)
(* times, pass by pass.                                                    *)
(***************************************************************************)
\* the instructions a hand-built stream is made of: loads of the two
\* constants and of a constant the pool does not have, Add, Div, calls of
\* the two functions with 0 to 2 arguments and of a function the table does
\* not have, and a byte that is no opcode
HandInstructions ==
    {<<OpLoadConst, 0, 0>>, <<OpLoadConst, 0, 1>>, <<OpLoadConst, 0, 2>>,
     <<OpAdd>>, <<OpDiv>>,
     <<OpCall, 0, 0, 0>>, <<OpCall, 0, 0, 1>>, <<OpCall, 0, 0, 2>>,
     <<OpCall, 0, 1, 2>>, <<OpCall, 0, 2, 0>>,
     <<9>>}
HandStreams ==
    {Flatten(is) : is \in UNION {[1..n -> HandInstructions] : n \in 0..MaxProgLen}}

\* the Program of a hand-built stream: constants [0, -2], functions abs and
\* an unknown name, no variable
HandProgram(instructions) ==
    [Program_new EXCEPT !.instructions = instructions,
                        !.constants = <<Zero, FNeg(Two)>>,
                        !.func_table = <<"builtin_abs", "builtin_unknown">>,
                        !.func_names = <<(<<"a", "b", "s">>), (<<"g">>)>>]

\* bytecode.rs, Program::new and pushes on its fields
BuildProgram ==
    /\ compiled = "none"
    /\ \E instructions \in HandStreams : program' = HandProgram(instructions)
    /\ compiled' = "ok"
    /\ UNCHANGED <<source, compile_err, ast, parser, context, vm, var_sets, batch,
                   contexts, vms, recompiled, scan, runs>>

\* vm.rs, the entry of VM::run on the VM as the call before left it
Run ==
    /\ compiled = "ok" /\ vm.status \in {"idle", "ok", "err"} /\ runs < MaxRuns
    /\ vm' = VM_run_check(program, context, vm)
    /\ runs' = runs + 1
    /\ UNCHANGED <<source, compiled, compile_err, ast, parser, program, context,
                   var_sets, batch, contexts, vms, recompiled, scan>>

\* calls f(), f(a) and f(a, b) of abs, max, min and an unknown name on
\* literal arguments
CallNames == {<<"a", "b", "s">>, <<"m", "a", "x">>, <<"m", "i", "n">>, <<"g">>}
CallArgs == {"0", "1", "2"}
CallSources ==
    {f \o <<"(", ")">> : f \in CallNames}
    \cup {f \o <<"(", a, ")">> : f \in CallNames, a \in CallArgs}
    \cup {f \o <<"(", a, ",", b, ")">> : f \in CallNames, a \in CallArgs, b \in CallArgs}

\* lib.rs, Compiler::compile(input) on a call
CompileCall ==
    /\ compiled = "none"
    /\ \E input \in CallSources : Compiled(input, compile(input))
    /\ UNCHANGED <<context, vm, var_sets, batch, contexts, vms, recompiled, scan, runs>>

NextVM ==
    \/ BuildProgram
    \/ CompileCall
    \/ Run
    \/ Step
    \/ Finish

SpecVM == Init /\ [][NextVM]_vars

(***************************************************************************)
(* The properties.                                                         *)
(***************************************************************************)
Done == compiled = "ok" /\ vm.status \in {"ok", "err", "panic"}

\* two outcomes of eval are the same: the same error, or values that are
\* equal as f64 (or both NaN)
SameValue(a, b) == FEq(a, b) \/ (IsNaN(a) /\ IsNaN(b))
SameOutcome(v, w) ==
    /\ v.status = w.status
    /\ v.err = w.err
    /\ v.status = "ok" => SameValue(v.result, w.result)

\* the program lowered from the parse tree as it is, without optimize_expr
Unoptimized == compile_expr(Compiler_new, ast).program

\* C1: for every source that compiles and every context long enough for
\* both programs, the eval of the optimized program ends with the same
\* outcome (the same value or the same error) as the eval of the program
\* lowered from the unoptimized parse tree.
C1_OptimizerSound ==
    (/\ Done
     /\ Len(context) >= Len(program.var_names)
     /\ Len(context) >= Len(Unoptimized.var_names))
        => SameOutcome(vm, eval(Unoptimized, context))

\* the operands the sources -x^e are built from
Operands == {<<"0">>, <<"1">>, <<"2">>, <<"x">>, <<"y">>}
OperandExpr(o) == parse(Parser_new(o).p).expr

\* C2: for every operand x and exponent e the source -x^e parses to
\* Neg(Pow(x, e)), the negation of the power.
C2_NegationOfPower ==
    \A x \in Operands, e \in Operands :
        (compiled = "ok" /\ source = <<"-">> \o x \o <<"^">> \o e)
            => ast = Unary("Neg", Binary("Pow", OperandExpr(x), OperandExpr(e)))

\* the names in ns that are not in seen, each once, in the order of ns
AppendNew(seen, ns) ==
    LET keep == {i \in 1..Len(ns) :
                    /\ \A j \in 1..Len(seen) : seen[j] # ns[i]
                    /\ \A j \in 1..(i - 1) : ns[j] # ns[i]}
        nth(k) == CHOOSE i \in keep : Cardinality({j \in keep : j < i}) = k - 1
    IN  seen \o [k \in 1..Cardinality(keep) |-> ns[nth(k)]]

\* the variable names of a parse tree, each once, in the order in which the
\* source text first names them
RECURSIVE VarsInOrder(_, _)
RECURSIVE VarsInOrderArgs(_, _, _, _)
VarsInOrderArgs(seen, args, lo, hi) ==
    IF lo > hi THEN seen
    ELSE IF lo = hi THEN VarsInOrder(seen, args[lo])
    ELSE LET mid == (lo + hi) \div 2
             left == VarsInOrderArgs(seen, args, lo, mid)
         IN  IF Evaluated(left) THEN VarsInOrderArgs(left, args, mid + 1, hi) ELSE left

VarsInOrder(seen, expr) ==
    CASE expr.k = "Number" -> seen
      [] expr.k = "Variable" -> AppendNew(seen, <<expr.name>>)
      [] expr.k = "Binary" -> VarsInOrder(VarsInOrder(seen, expr.left), expr.right)
      [] expr.k = "Unary" -> VarsInOrder(seen, expr.expr)
      [] expr.k = "Call" -> VarsInOrderArgs(seen, expr.args, 1, Len(expr.args))

\* C3: for every source that compiles, var_names lists each variable of
\* the source text once, in the order of first occurrence in the text; the
\* source x * 0 gives var_names = [x] and the constants pool {0.0}.
C3_VarNamesInSourceOrder ==
    compiled = "ok" =>
        /\ program.var_names = VarsInOrder(<<>>, ast)
        /\ source = <<"x", "*", "0">> =>
              program.var_names = <<(<<"x">>)>> /\ program.constants = <<Zero>>

\* C4: an eval of a compiled program ends with a number or an error value
\* and never aborts, whatever number of arguments a call passes.
C4_EvalNeverAborts == compiled = "ok" => vm.status # "panic"

\* C5: a Context.set with a name that is not in program.var_names leaves
\* get_by_index(i) as it was for every i < len(var_names), and leaves the
\* outcome of an eval on the context as it was.
C5_SetUnknownReadsUnchanged ==
    [][\A name \in CtxNames, value \in CtxVals :
          (Set(name, value) /\ ~position(program.var_names, name).some)
             => /\ \A i \in 0..(Len(program.var_names) - 1) :
                      get_by_index(context', i) = get_by_index(context, i)
                /\ SameOutcome(eval(program, context'), eval(program, context))]_vars

\* C6: compile never emits a truncated operand: when the source is one call
\* and compile succeeds, the call has at most 255 arguments and the
\* arg-count byte, the last byte of the program, is the number of arguments.
C6_ArgCountByteIsArity ==
    (compiled = "ok" /\ ast.k = "Call")
        => /\ Len(ast.args) <= 255
           /\ program.instructions[Len(program.instructions)] = Len(ast.args)

\* C7: compile succeeds only if no input remains after the top-level
\* expression: the parser's current token is then the end of input.
C7_WholeSourceParsed ==
    compiled = "ok" => parser.current_token.t = "EOF" /\ parser.lexer = <<>>

\* the subexpressions of a parse tree, itself included
RECURSIVE SubExprs(_)
SubExprs(expr) ==
    {expr} \cup
    CASE expr.k = "Binary" -> SubExprs(expr.left) \cup SubExprs(expr.right)
      [] expr.k = "Unary" -> SubExprs(expr.expr)
      [] expr.k = "Call" -> UNION {SubExprs(expr.args[i]) : i \in 1..Len(expr.args)}
      [] OTHER -> {}

IsDivByLiteralZero(e) ==
    /\ e.k = "Binary" /\ e.op = "Div"
    /\ IsNumber0(optimize_expr(e.right))

\* C8: optimize_expr keeps every Div whose right operand is, after its
\* children are rewritten, the literal zero; a program whose tree is such a
\* Div of a literal evaluates to the division-by-zero error; and a Div
\* instruction that finds a zero divisor ends the run with that error.
C8_DivByZeroKept ==
    compiled = "ok" =>
        /\ \A e \in SubExprs(ast) :
              IsDivByLiteralZero(e) =>
                  optimize_expr(e) =
                      Binary("Div", optimize_expr(e.left), optimize_expr(e.right))
        /\ (/\ IsDivByLiteralZero(ast)
            /\ optimize_expr(ast.left).k = "Number"
            /\ vm.status \notin {"idle", "running"})
              => vm.status = "err" /\ vm.err = "Division by zero"
        /\ (/\ vm.status = "running"
            /\ vm.pc < Len(program.instructions)
            /\ program.instructions[vm.pc + 1] = OpDiv
            /\ Len(vm.stack) >= 2
            /\ FEq(Top(vm.stack), Zero))
              => LET after == VM_step(program, context, vm)
                 IN  after.status = "err" /\ after.err = "Division by zero"

\* the source 1/0 has been evaluated, and the outcome is the error
C8_Witness ==
    /\ source = <<"1", "/", "0">>
    /\ compiled = "ok"
    /\ program.instructions[Len(program.instructions)] = OpDiv
    /\ vm.status = "err" /\ vm.err = "Division by zero"

\* C9: the constants pool of a compiled program holds no two bit-equal
\* values.
C9_ConstantsDistinct ==
    compiled = "ok" =>
        \A i \in 1..Len(program.constants), j \in 1..Len(program.constants) :
            i # j => program.constants[i] # program.constants[j]

\* C10: an eval on a context shorter than var_names ends at once with the
\* variable-count error, at pc 0 with an empty stack, whatever the
\* instructions would do; an eval on a context at least as long as
\* var_names never ends with that error.
C10_VariableCountFirst ==
    (compiled = "ok" /\ vm.status # "idle") =>
        IF Len(context) < Len(program.var_names)
        THEN vm = Failed(0, <<>>, "Context missing variables")
        ELSE vm.err # "Context missing variables"

\* x+y/0 evaluated on a context of one value: its division by zero is
\* never reached
C10_Witness ==
    /\ source = <<"x", "+", "y", "/", "0">>
    /\ compiled = "ok"
    /\ Len(context) = 1
    /\ vm.status = "err" /\ vm.err = "Context missing variables"

\* the eval_batch call has returned (or aborted)
BatchDone == compiled = "ok" /\ batch.status # "idle"

\* what eval gives for vector i of the batch, 1-based
EvalOf(i) == eval(program, var_sets[i])

\* the vectors of the batch whose length is not len(var_names)
Offending == {i \in 1..Len(var_sets) : Len(var_sets[i]) # Len(program.var_names)}
\* the vectors of the batch on which eval does not return a value
Failing == {i \in 1..Len(var_sets) : EvalOf(i).status # "ok"}
Lowest(S) == CHOOSE i \in S : \A j \in S : i <= j

IsChain == compiled = "ok" /\ source \in ChainSources

\* the BinaryOp an operator character stands for
OpOf(ch) ==
    CASE ch = "+" -> "Add" [] ch = "-" -> "Sub" [] ch = "*" -> "Mul"
      [] ch = "/" -> "Div" [] ch = "^" -> "Pow"
\* the precedence level the claims give each operator
LevelOf(ch) == IF ch \in {"+", "-"} THEN 1 ELSE IF ch \in {"*", "/"} THEN 2 ELSE 3

ChainA == OperandExpr(<<source[1]>>)
ChainB == OperandExpr(<<source[3]>>)
ChainC == OperandExpr(<<source[5]>>)
\* the chain grouped to the left, (a o1 b) o2 c, and to the right
LeftTree == Binary(OpOf(source[4]), Binary(OpOf(source[2]), ChainA, ChainB), ChainC)
RightTree == Binary(OpOf(source[2]), ChainA, Binary(OpOf(source[4]), ChainB, ChainC))
LeftSource == <<"(", source[1], source[2], source[3], ")", source[4], source[5]>>
RightSource == <<source[1], source[2], "(", source[3], source[4], source[5], ")">>

\* the chain parses to the tree t and, once evaluated, gives what the
\* source with the parentheses written out gives on the same context
ParsesAndEvaluatesAs(t, src) ==
    /\ ast = t
    /\ program = compile(src).program
    /\ Done => SameOutcome(vm, eval(compile(src).program, context))

\* C13: in a o1 b o2 c with operators of different precedence (+ - below
\* * / below ^), the operator of higher precedence takes b: a + b * c is
\* a + (b * c) and a * b + c is (a * b) + c, in the tree and in the value.
C13_Precedence ==
    (IsChain /\ LevelOf(source[2]) # LevelOf(source[4])) =>
        IF LevelOf(source[2]) < LevelOf(source[4])
        THEN ParsesAndEvaluatesAs(RightTree, RightSource)
        ELSE ParsesAndEvaluatesAs(LeftTree, LeftSource)

\* 1+2*x evaluated with x = 2 gives 5 (and not 6)
C13_Witness ==
    /\ source = <<"1", "+", "2", "*", "x">>
    /\ Done
    /\ context = <<Two>>
    /\ vm.status = "ok" /\ vm.result = <<5, 1>>

\* C14: in a o1 b o2 c with operators of one precedence level, ^ groups to
\* the right, a ^ (b ^ c), and + - and * / group to the left, (a - b) - c;
\* 2 ^ 3 ^ 2 evaluates to 512.
C14_Associativity ==
    /\ (IsChain /\ LevelOf(source[2]) = LevelOf(source[4])) =>
          IF source[2] = "^"
          THEN ParsesAndEvaluatesAs(RightTree, RightSource)
          ELSE ParsesAndEvaluatesAs(LeftTree, LeftSource)
    /\ (source = <<"2", " ", "^", " ", "3", " ", "^", " ", "2">> /\ Done) =>
          vm.status = "ok" /\ vm.result = <<512, 1>>

\* 2 ^ 3 ^ 2 has been evaluated
C14_Witness ==
    /\ source = <<"2", " ", "^", " ", "3", " ", "^", " ", "2">>
    /\ Done
    /\ vm.result = <<512, 1>>

\* evaluation e has started / has returned
SharedStarted(e) == compiled = "ok" /\ vms[e].status # "idle"
SharedDone(e) == compiled = "ok" /\ vms[e].status \in {"ok", "err", "panic"}

\* C15: evaluations that share one Program, each with its own context and
\* its own VM stack, interleave their steps in any order; every evaluation
\* that has returned has the outcome (value or error, and the VM it leaves)
\* of Program.eval run alone on its context, and a step of one evaluation
\* leaves the Program and the other evaluations' VMs and contexts as they
\* were.
C15_SharedProgramIsolation ==
    /\ [](\A e \in Evals : SharedDone(e) => vms[e] = eval(program, contexts[e]))
    /\ [][\A e \in Evals :
            (SharedStarted(e) /\ vms'[e] # vms[e]) =>
                /\ program' = program
                /\ contexts' = contexts
                /\ \A f \in Evals \ {e} : vms'[f] = vms[f]]_vars

\* x * 2 + y: evaluation 1 has returned 6 on (2, 2) while evaluation 2 is
\* in the middle of its loop on another context
C15_Witness ==
    /\ source = <<"x", " ", "*", " ", "2", " ", "+", " ", "y">>
    /\ contexts[1] = <<Two, Two>> /\ vms[1].status = "ok" /\ vms[1].result = <<6, 1>>
    /\ contexts[2] = <<NaN, Two>> /\ vms[2].status = "running" /\ vms[2].pc > 0
    /\ vms[2].stack # <<>>
\* C16: compiling the same source a second time, by a Compiler value whose
\* maps draw the same or other hash keys, gives the result of the first
\* compile: the same error, or a program with identical instructions,
\* constants, var_names and func_names.
C16_CompileDeterministic ==
    recompiled.status # "none" =>
        /\ recompiled.status = compiled
        /\ recompiled.err = compile_err
        /\ compiled = "ok" =>
              /\ recompiled.program.instructions = program.instructions
              /\ recompiled.program.constants = program.constants
              /\ recompiled.program.var_names = program.var_names
              /\ recompiled.program.func_names = program.func_names

\* max(S - K, 0) * discount compiled again by a Compiler with other hash
\* keys: three variables, one function and two constants
C16_Witness ==
    /\ source = <<"m", "a", "x", "(", "S", " ", "-", " ", "K", ",", " ", "0", ")",
                  " ", "*", " ", "d", "i", "s", "c", "o", "u", "n", "t">>
    /\ recompiled.status = "ok" /\ recompiled.keys = 1
    /\ Len(recompiled.program.var_names) = 3
    /\ Len(recompiled.program.func_names) = 1
\* the names of the match of resolve_func
BuiltinNames == {Builtins[i][1] : i \in 1..Len(Builtins)}

\* the source is one call of a name outside the built-in list
UnknownCall == compiled = "ok" /\ ast.k = "Call" /\ ast.func \notin BuiltinNames

\* argument i of the call evaluated on its own: its program, the values of
\* its variables in the context of the call, and the outcome of its eval
ArgProgram(i) == Compiler_compile(Compiler_new, ast.args[i])
ArgContext(i) ==
    [j \in 1..Len(ArgProgram(i).var_names) |->
        context[position(program.var_names, ArgProgram(i).var_names[j]).idx + 1]]
ArgOutcome(i) == eval(ArgProgram(i), ArgContext(i))
ArgsNotOk == {i \in 1..Len(ast.args) : ArgOutcome(i).status # "ok"}

C17_ArgErrorReported ==
    /\ source = <<"g", "(", "x", ",", "1", "/", "0", ")">>
    /\ context = <<Two>>
    /\ Done /\ vm.status = "err" /\ vm.err = "Division by zero"
\* the tree is built of numeric literals, + - * / ^ and unary minus only
\* (parentheses leave no node)
RECURSIVE LiteralOnly(_)
LiteralOnly(e) ==
    CASE e.k = "Number" -> TRUE
      [] e.k = "Binary" -> LiteralOnly(e.left) /\ LiteralOnly(e.right)
      [] e.k = "Unary" -> LiteralOnly(e.expr)
      [] OTHER -> FALSE

\* the value of the denominator of the division e, computed by the VM on the
\* denominator lowered as it is written
DenominatorValue(e) == eval(compile_expr(Compiler_new, e.right).program, <<>>)

\* some division of the tree has a denominator equal to zero
HasZeroDenominator(expr) ==
    \E e \in SubExprs(expr) :
        /\ e.k = "Binary" /\ e.op = "Div"
        /\ DenominatorValue(e).status = "ok"
        /\ FEq(DenominatorValue(e).result, Zero)

\* C18: a source of numeric literals, + - * / ^, unary minus and parentheses
\* in which no division has a zero denominator compiles to one constant, no
\* variable and the one instruction LoadConst 0; its eval returns that
\* constant; 1 + 2 * 3 gives the pool {7}.
C18_LiteralsFoldToOneConstant ==
    /\ (compiled = "ok" /\ LiteralOnly(ast) /\ ~HasZeroDenominator(ast)) =>
          /\ Len(program.constants) = 1
          /\ program.var_names = <<>>
          /\ program.instructions = <<OpLoadConst, 0, 0>>
          /\ Done => vm.status = "ok" /\ vm.result = program.constants[1]
    /\ source = <<"1", " ", "+", " ", "2", " ", "*", " ", "3">> =>
          program.constants = <<(<<7, 1>>)>>

\* 2^1/2 has been evaluated: the pool is {1} and eval returned 1
C18_Witness ==
    /\ source = <<"2", "^", "1", "/", "2">>
    /\ program.constants = <<One>>
    /\ Done /\ vm.status = "ok" /\ vm.result = One
\* the names of the Variable nodes of a tree, every occurrence, from left to
\* right
RECURSIVE VarOccurrences(_)
RECURSIVE VarOccurrencesArgs(_, _, _)
VarOccurrencesArgs(args, lo, hi) ==
    IF lo > hi THEN <<>>
    ELSE IF lo = hi THEN VarOccurrences(args[lo])
    ELSE LET mid == (lo + hi) \div 2
             left == VarOccurrencesArgs(args, lo, mid)
         IN  IF Evaluated(left) THEN left \o VarOccurrencesArgs(args, mid + 1, hi)
             ELSE left

VarOccurrences(expr) ==
    CASE expr.k = "Number" -> <<>>
      [] expr.k = "Variable" -> <<expr.name>>
      [] expr.k = "Binary" -> VarOccurrences(expr.left) \o VarOccurrences(expr.right)
      [] expr.k = "Unary" -> VarOccurrences(expr.expr)
      [] expr.k = "Call" -> VarOccurrencesArgs(expr.args, 1, Len(expr.args))

\* the bytes an instruction takes: the opcode and its operands
InstrSize(opcode) ==
    IF opcode \in {OpLoadConst, OpLoadVar} THEN 3
    ELSE IF opcode = OpCall THEN 4
    ELSE 1

\* the instruction stream read from d.pc for at most n instructions (by
\* halves): d.operands collects the u16 operand of every LoadVar
RECURSIVE Decode(_, _, _)
Decode(instructions, d, n) ==
    IF n = 0 \/ d.pc >= Len(instructions) THEN d
    ELSE IF d.pc + InstrSize(instructions[d.pc + 1]) > Len(instructions) THEN d
    ELSE IF n = 1
    THEN [pc |-> d.pc + InstrSize(instructions[d.pc + 1]),
          operands |->
              IF instructions[d.pc + 1] = OpLoadVar
              THEN Append(d.operands,
                          instructions[d.pc + 2] * 256 + instructions[d.pc + 3])
              ELSE d.operands]
    ELSE LET half == Decode(instructions, d, n \div 2)
         IN  IF Evaluated(half) THEN Decode(instructions, half, n - (n \div 2))
             ELSE half

LoadVarOperands(instructions) ==
    Decode(instructions, [pc |-> 0, operands |-> <<>>], Len(instructions)).operands

SetByIndexEffect(index, value) ==
    /\ Len(context') = IF Len(context) > index + 1 THEN Len(context) ELSE index + 1
    /\ context'[index + 1] = value
    /\ \A j \in 1..Len(context) : j # index + 1 => context'[j] = context[j]
    /\ \A j \in (Len(context) + 1)..index : context'[j] = Zero

\* the effect of set(name, value, program), name in var_names, on what get
\* returns: value for name; for another name what it returned before, or the
\* 0 of a slot the call created
SetKnownEffect(name, value) ==
    /\ get(context', name, program) = Some(value)
    /\ \A other \in CtxNames \ {name} :
          \/ get(context', other, program) = get(context, other, program)
          \/ /\ get(context, other, program) = None
             /\ get(context', other, program) = Some(Zero)
             /\ position(program.var_names, other).idx < position(program.var_names, name).idx

\* the same with every other name reading exactly what it read before
SetKnownEffectAsStated(name, value) ==
    /\ get(context', name, program) = Some(value)
    /\ \A other \in CtxNames \ {name} :
          get(context', other, program) = get(context, other, program)

\* C20, as stated: set_by_index(i, v) sets slot i to v, leaves the other
\* slots as they were, fills the slots it creates below i with 0 and makes
\* the length max(old length, i + 1); after set(name, v, program) with name
\* in var_names, get(name, program) returns v and get of every other name
\* returns what it returned before; get of a name that is not in var_names
\* returns None.
C20_ContextFrameAsStated ==
    /\ [](\A name \in CtxNames :
            ~position(program.var_names, name).some =>
                get(context, name, program) = None)
    /\ [][/\ \A index \in 0..(MaxCtxLen - 1), value \in CtxVals :
              SetByIndex(index, value) => SetByIndexEffect(index, value)
          /\ \A name \in CtxNames, value \in CtxVals :
              (Set(name, value) /\ position(program.var_names, name).some)
                  => SetKnownEffectAsStated(name, value)]_vars

\* C20, amended: the same, except that after set(name, v, program) a name
\* of var_names that comes before name and whose slot the context did not
\* have reads the 0 its new slot was filled with, where it read None before.
C20_ContextFrame ==
    /\ [](\A name \in CtxNames :
            ~position(program.var_names, name).some =>
                get(context, name, program) = None)
    /\ [][/\ \A index \in 0..(MaxCtxLen - 1), value \in CtxVals :
              SetByIndex(index, value) => SetByIndexEffect(index, value)
          /\ \A name \in CtxNames, value \in CtxVals :
              (Set(name, value) /\ position(program.var_names, name).some)
                  => SetKnownEffect(name, value)]_vars

\* x * 2 + y: y has been set to NaN and x reads 0
C20_Witness ==
    /\ source = <<"x", " ", "*", " ", "2", " ", "+", " ", "y">> /\ compiled = "ok"
    /\ context = <<Zero, NaN>>
    /\ get(context, <<"y">>, program) = Some(NaN)
    /\ get(context, <<"x">>, program) = Some(Zero)
    /\ get(context, <<"z">>, program) = None
\* the number of `(` of src[i..] left open at the end of the source, from
\* depth `(` open before i; a `)` at depth 0 closes nothing
RECURSIVE OpenAtEnd(_, _, _)
OpenAtEnd(src, i, depth) ==
    IF i > Len(src) THEN depth
    ELSE IF src[i] = "(" THEN OpenAtEnd(src, i + 1, depth + 1)
    ELSE IF src[i] = ")" /\ depth > 0 THEN OpenAtEnd(src, i + 1, depth - 1)
    ELSE OpenAtEnd(src, i + 1, depth)

\* some `(` of the source has no matching `)`
HasUnclosedParen(src) == OpenAtEnd(src, 1, 0) > 0

\* C21: a source in which a `(` has no matching `)` fails to compile and
\* yields no program; the unclosed call sin(x and the unclosed grouping
\* (1 + 2, whose inner expressions are complete, fail with different errors.
C21_UnclosedParenFails ==
    /\ (compiled # "none" /\ HasUnclosedParen(source)) =>
          compiled = "err" /\ program = Program_new
    /\ source = <<"s", "i", "n", "(", "x">> =>
          compiled = "err" /\ compile_err = "Expected ')' after function arguments"
    /\ source = <<"(", "1", " ", "+", " ", "2">> =>
          compiled = "err" /\ compile_err = "Expected ')'"
\* the longest prefix of str made of digits and points
RECURSIVE NumberPrefix(_)
NumberPrefix(str) ==
    IF str # <<>> /\ (Head(str) \in Digits \/ Head(str) = ".")
    THEN <<Head(str)>> \o NumberPrefix(Tail(str))
    ELSE <<>>

Points(str) == Cardinality({i \in 1..Len(str) : str[i] = "."})

\* str is digits, digits `.` digits or `.` digits
IsNumberForm(str) ==
    /\ str # <<>>
    /\ Points(str) <= 1
    /\ str[Len(str)] \in Digits

\* C22: on an input that starts with a digit or a point, the first item is
\* a Number exactly when the digits and points at the start of the input
\* are digits, digits `.` digits or `.` digits (a lone `.` and digits `.`
\* are not accepted), and it is the invalid-number error of a second point
\* when there are two points or more.
C22_NumberForms ==
    (/\ Len(scan.items) >= 1
     /\ scan.input # <<>>
     /\ scan.input[1] \in Digits \cup {"."})
        => LET str == NumberPrefix(scan.input)
               first == scan.items[1]
           IN  /\ (first.ok /\ first.tok.t = "Number") <=> IsNumberForm(str)
               /\ Points(str) >= 2 =>
                      /\ ~first.ok
                      /\ first.err = "Invalid number: multiple decimal points"
\* the characters of the model outside ASCII that are not whitespace
NonAsciiNonWhitespace == (OtherAlphanumeric \cup {"U+00A0"}) \ Whitespace

\* the number of characters the Lexer has consumed
Consumed == Len(scan.input) - Len(scan.rest)

\* C23: every identifier token starts with an ASCII letter or `_` and is
\* made of ASCII letters, ASCII digits and `_`; the scanner consumes no
\* character outside ASCII other than whitespace: when it meets one, the
\* item is the unexpected-character error, and it never reaches the end of
\* an input that holds one.
C23_IdentifiersAreAscii ==
    /\ \A i \in 1..Len(scan.items) :
          (scan.items[i].ok /\ scan.items[i].tok.t = "Identifier") =>
              LET name == scan.items[i].tok.name
              IN  /\ name # <<>>
                  /\ name[1] \in AsciiLetters \cup {"_"}
                  /\ \A k \in 1..Len(name) : name[k] \in AsciiLetters \cup Digits \cup {"_"}
    /\ \A k \in 1..Consumed : scan.input[k] \notin NonAsciiNonWhitespace
    /\ (/\ Len(scan.items) >= 1
        /\ skip_whitespace(scan.input) # <<>>
        /\ Head(skip_whitespace(scan.input)) \in NonAsciiNonWhitespace)
           => ~scan.items[1].ok /\ scan.items[1].err = "Unexpected character"
    /\ scan.status = "done" =>
          \A k \in 1..Len(scan.input) : scan.input[k] \notin NonAsciiNonWhitespace
\* C30: every next_token call of the iteration consumes at least one
\* character or reports the end of the input, so a Lexer yields at most one
\* item per character of its input, also when the input holds a character
\* the scanner rejects.
C30_ScanTerminates ==
    /\ [](Len(scan.items) <= Len(scan.input))
    /\ [][ScanNext =>
             \/ Len(scan'.rest) < Len(scan.rest)
             \/ scan'.status = "done"]_vars
\* C24: when pc has reached the end of the instruction stream, run returns
\* the value on the stack if it is the only one, and an error if the stack
\* holds no value or more than one, for hand-built streams too.
C24_ExactlyOneValueAtEnd ==
    [][Finish =>
          IF Len(vm.stack) = 1
          THEN vm'.status = "ok" /\ vm'.result = vm.stack[1]
          ELSE vm'.status = "err"]_vars
\* the instruction at pc has its index within its pool: the constants for
\* LoadConst, var_names for LoadVar, func_table for Call
IndexInPool(prog, pc) ==
    LET opcode == prog.instructions[pc + 1]
        idx == prog.instructions[pc + 2] * 256 + prog.instructions[pc + 3]
    IN  CASE opcode = OpLoadConst -> idx < Len(prog.constants)
          [] opcode = OpLoadVar -> idx < Len(prog.var_names)
          [] opcode = OpCall -> idx < Len(prog.func_table)
          [] OTHER -> TRUE

\* the instruction stream read from d.pc for at most n instructions (by
\* halves): d.ok tells whether every index met is within its pool
RECURSIVE DecodeIndices(_, _, _)
DecodeIndices(prog, d, n) ==
    IF n = 0 \/ d.pc >= Len(prog.instructions) THEN d
    ELSE IF d.pc + InstrSize(prog.instructions[d.pc + 1]) > Len(prog.instructions)
    THEN [d EXCEPT !.ok = FALSE]
    ELSE IF n = 1
    THEN [pc |-> d.pc + InstrSize(prog.instructions[d.pc + 1]),
          ok |-> d.ok /\ IndexInPool(prog, d.pc)]
    ELSE LET half == DecodeIndices(prog, d, n \div 2)
         IN  IF Evaluated(half) THEN DecodeIndices(prog, half, n - (n \div 2))
             ELSE half

IndicesInRange(prog) ==
    DecodeIndices(prog, [pc |-> 0, ok |-> TRUE], Len(prog.instructions)).ok

\* the errors of a stream that is not balanced or not well formed
StreamErrors ==
    {"Stack underflow", "Stack underflow in function call",
     "Invalid function index", "Unknown opcode"}

\* C25: in a program produced by compile every LoadConst, LoadVar and Call
\* index is within its pool; no instruction finds fewer values than it pops;
\* when the last instruction has run the stack holds exactly one value, and
\* it is empty after the final pop; eval never ends with a stack-underflow,
\* invalid-function-index or unknown-opcode error.
C25_EmittedProgramBalanced ==
    compiled = "ok" =>
        /\ IndicesInRange(program)
        /\ vm.status = "err" => vm.err \notin StreamErrors
        /\ (vm.status = "running" /\ vm.pc >= Len(program.instructions)) =>
              Len(vm.stack) = 1
        /\ vm.status = "ok" => vm.stack = <<>>
\* the names of the Call nodes of a tree, every occurrence, in the order in
\* which the calls are made: the arguments of a call from left to right,
\* then the call
RECURSIVE CallOccurrences(_)
RECURSIVE CallOccurrencesArgs(_, _, _)
CallOccurrencesArgs(args, lo, hi) ==
    IF lo > hi THEN <<>>
    ELSE IF lo = hi THEN CallOccurrences(args[lo])
    ELSE LET mid == (lo + hi) \div 2
             left == CallOccurrencesArgs(args, lo, mid)
         IN  IF Evaluated(left) THEN left \o CallOccurrencesArgs(args, mid + 1, hi)
             ELSE left

CallOccurrences(expr) ==
    CASE expr.k = "Binary" -> CallOccurrences(expr.left) \o CallOccurrences(expr.right)
      [] expr.k = "Unary" -> CallOccurrences(expr.expr)
      [] expr.k = "Call" ->
            Append(CallOccurrencesArgs(expr.args, 1, Len(expr.args)), expr.func)
      [] OTHER -> <<>>

\* the instruction stream read from d.pc for at most n instructions (by
\* halves): d.operands collects the u16 operand of every Call
RECURSIVE DecodeCalls(_, _, _)
DecodeCalls(instructions, d, n) ==
    IF n = 0 \/ d.pc >= Len(instructions) THEN d
    ELSE IF d.pc + InstrSize(instructions[d.pc + 1]) > Len(instructions) THEN d
    ELSE IF n = 1
    THEN [pc |-> d.pc + InstrSize(instructions[d.pc + 1]),
          operands |->
              IF instructions[d.pc + 1] = OpCall
              THEN Append(d.operands,
                          instructions[d.pc + 2] * 256 + instructions[d.pc + 3])
              ELSE d.operands]
    ELSE LET half == DecodeCalls(instructions, d, n \div 2)
         IN  IF Evaluated(half) THEN DecodeCalls(instructions, half, n - (n \div 2))
             ELSE half

CallOperands(instructions) ==
    DecodeCalls(instructions, [pc |-> 0, operands |-> <<>>], Len(instructions)).operands

\* C26: after compile, func_table, func_names and func_metadata have the
\* same length; func_names has no duplicates and lists the function names
\* called in the source in the order of their first call; entry i of
\* func_table is the function of func_names[i]; the Call instructions carry,
\* in order, the position of the called name in func_names.
C26_FunctionTablesParallel ==
    compiled = "ok" =>
        LET names == program.func_names
            calls == CallOccurrences(ast)
        IN  /\ Len(program.func_table) = Len(names)
            /\ Len(program.func_metadata) = Len(names)
            /\ \A i, j \in 1..Len(names) : names[i] = names[j] => i = j
            /\ names = AppendNew(<<>>, calls)
            /\ \A i \in 1..Len(names) :
                  program.func_table[i] =
                      resolve_func(Compiler_new, names[i])[1].program.func_table[1]
            /\ CallOperands(program.instructions) =
                   [k \in 1..Len(calls) |-> position(names, calls[k]).idx]
\* e is a Binary or Unary node whose operands are all literals, other than a
\* Div by the literal zero
IsFoldable(e) ==
    \/ /\ e.k = "Binary" /\ e.left.k = "Number" /\ e.right.k = "Number"
       /\ ~(e.op = "Div" /\ IsNumber0(e.right))
    \/ e.k = "Unary" /\ e.expr.k = "Number"

\* e matches one of x+0, 0+x, x-0, x*0, 0*x, x*1, 1*x, x/1, x^0, x^1
IsIdentity(e) ==
    /\ e.k = "Binary"
    /\ ~(e.left.k = "Number" /\ e.right.k = "Number")
    /\ \/ e.op = "Add" /\ (IsNumber0(e.left) \/ IsNumber0(e.right))
       \/ e.op = "Sub" /\ IsNumber0(e.right)
       \/ e.op = "Mul" /\ (IsNumber0(e.left) \/ IsNumber0(e.right))
       \/ e.op = "Mul" /\ (IsNumber1(e.left) \/ IsNumber1(e.right))
       \/ e.op = "Div" /\ IsNumber1(e.right)
       \/ e.op = "Pow" /\ (IsNumber0(e.right) \/ IsNumber1(e.right))

\* C27: optimize_expr of an optimized tree returns it unchanged; the
\* optimized tree has no Binary or Unary node of literals only (other than
\* a Div by the literal zero) and no node matching a listed identity; the
\* Call nodes keep their name and their number of arguments.
C27_OptimizeFixedPoint ==
    compiled = "ok" =>
        LET optimized == optimize_expr(ast)
        IN  /\ optimize_expr(optimized) = optimized
            /\ \A e \in SubExprs(optimized) : ~IsFoldable(e) /\ ~IsIdentity(e)
            /\ \A e \in SubExprs(ast) :
                  e.k = "Call" =>
                      /\ optimize_expr(e).k = "Call"
                      /\ optimize_expr(e).func = e.func
                      /\ Len(optimize_expr(e).args) = Len(e.args)

\* x*1 compiled: the optimized tree is x
C27_Witness ==
    /\ source = <<"x", "*", "1">> /\ compiled = "ok"
    /\ ast = Binary("Mul", Variable(<<"x">>), Number(One))
    /\ optimize_expr(ast) = Variable(<<"x">>)
\* the VM is about to execute a Call whose function index is in func_table
AtCall ==
    /\ vm.status = "running"
    /\ vm.pc + 4 <= Len(program.instructions)
    /\ program.instructions[vm.pc + 1] = OpCall
    /\ program.instructions[vm.pc + 2] * 256 + program.instructions[vm.pc + 3]
           < Len(program.func_table)

\* the values of the literal arguments of a call, in the order of the source
SourceArgs == [i \in 1..Len(SelectSeq(source, LAMBDA c : c \in Digits)) |->
                  Fin(DigitVal(SelectSeq(source, LAMBDA c : c \in Digits)[i]), 1)]

\* the frame of Call fidx n on a stack: the function gets the top n values,
\* the one pushed first at index 0, and its return value replaces them
CallFrame(fidx, n, stack, after) ==
    IF Len(stack) < n
    THEN after.status = "err" /\ after.err = "Stack underflow in function call"
         /\ after.stack = stack
    ELSE LET below == SubSeq(stack, 1, Len(stack) - n)
             args == [i \in 1..n |-> stack[Len(stack) - n + i]]
             r == call_builtin(program.func_table[fidx + 1], args)
         IN  IF r.panic THEN after.status = "panic"
             ELSE /\ after.status = "running"
                  /\ Len(after.stack) = Len(below) + 1
                  /\ SubSeq(after.stack, 1, Len(below)) = below
                  /\ Top(after.stack) = r.v

\* C28: executing Call fidx n hands func_table[fidx] the top n values of
\* the stack as one slice, the first argument of the source first, and
\* replaces exactly those n values by the return value, the values below
\* unchanged; on fewer than n values it returns the stack-underflow error
\* and calls nothing.
C28_CallFrame ==
    /\ [](source \in CallSources /\ AtCall => vm.stack = SourceArgs)
    /\ [][Step /\ AtCall =>
             CallFrame(program.instructions[vm.pc + 2] * 256 + program.instructions[vm.pc + 3],
                       program.instructions[vm.pc + 4], vm.stack, vm')]_vars

\* abs(2,1) has run its Call: the stack holds |2|, of the first argument
C28_Witness ==
    /\ source = <<"a", "b", "s", "(", "2", ",", "1", ")">> /\ compiled = "ok"
    /\ program.instructions = <<OpLoadConst, 0, 0, OpLoadConst, 0, 1, OpCall, 0, 0, 2>>
    /\ vm.status = "running" /\ vm.pc = 10 /\ vm.stack = <<Two>>

\* a hand-built stream has run Call abs 1 on the stack [0, -2]: the value
\* below the argument is kept
C28_WitnessBelow ==
    /\ source = <<>> /\ compiled = "ok"
    /\ program.instructions = <<OpLoadConst, 0, 0, OpLoadConst, 0, 1, OpCall, 0, 0, 1>>
    /\ vm.status = "running" /\ vm.pc = 10 /\ vm.stack = <<Zero, Two>>

\* a hand-built stream has run Call abs 2 on the stack [0]: the error
C28_WitnessUnderflow ==
    /\ source = <<>> /\ compiled = "ok"
    /\ program.instructions = <<OpLoadConst, 0, 0, OpCall, 0, 0, 2>>
    /\ vm.status = "err" /\ vm.err = "Stack underflow in function call"
    /\ vm.stack = <<Zero>>
\* C29: the value stack of a VM is empty before and after every run, the
\* run returning a value or an error.
C29_StackEmptyBetweenRuns ==
    vm.status \in {"idle", "ok", "err"} => vm.stack = <<>>
====
